---- MODULE Spec2Model ----
(***************************************************************************)
(* playwright-gatekeeper: the cross-process gatekeeper store               *)
(* (GatekeeperState in src/orchestration/testContext.ts, kept in           *)
(* src/src/orchestration/index.ts), its lock file, the wait loop, the      *)
(* dependency resolver and the markAs / dependsOn helpers.                 *)
(*                                                                         *)
(* Time is counted in ticks.  Every timed loop of the code (acquireLock,   *)
(* waitForResult) keeps the ticks elapsed since its own start, and Tick    *)
(* advances all of them together.                                          *)
(***************************************************************************)
EXTENDS Integers, Sequences, FiniteSets, TLC

\* ------------------------------------------------------------------ bounds
NumWorkers == 2        \* worker processes
MaxCalls == 2          \* store calls the workers issue under Spec, in all
MaxFaults == 4         \* file-system errors a run may meet, in all
LockTimeout == 2       \* acquireLock's timeoutMs (5000 ms), in ticks
WaitTimeout == 2       \* waitForResults' timeoutMs (30000 ms), in ticks
PollInterval == 1      \* waitForResults' pollIntervalMs (100 ms), in ticks

\* ------------------------------------------------------- program constants
maxRetries == 3

\* ------------------------------------------------------------------ values
Keys == {"api", "auth", "db"}
Undefined == "undefined"
Errors == {"boom"}
MainPid == 0
Workers == 1..NumWorkers
Pids == {MainPid} \cup Workers
StalePid == NumWorkers + 1

\* the process that makes the call
Caller == CHOOSE p \in Workers : TRUE

\* GatekeeperResult as setResult builds it (timestamp is written and never read)
MkResult(passed, error) == [passed |-> passed, error |-> error]

\* what the workers pass to the store under Spec
CallKeys == {"api", "auth"}
CallResults == {MkResult(TRUE, Undefined), MkResult(FALSE, "boom")}
CallDeps == {<<>>, <<"api">>}

EmptyMap == [k \in {} |-> Undefined]

\* (mutant) a key that is there keeps its value
Put_KeepFirst(m, k, v) ==
  [x \in DOMAIN m \cup {k} |-> IF x \in DOMAIN m THEN m[x] ELSE v]

\* (mutant) the map is replaced by one that holds the new key only
Put_Replace(m, k, v) == [x \in {k} |-> v]

\* m[k] = v on a Record
Put(m, k, v) == [x \in DOMAIN m \cup {k} |-> IF x = k THEN v ELSE m[x]]

\* StateFile: { results: {}, dependencies: {} }
EmptyState == [results |-> EmptyMap, dependencies |-> EmptyMap]

\* ------------------------------------------------------- the file contents
\* (mutant) the error text is left out of what is written
StringifyResult_NoError(r) == [passed |-> r.passed]

\* JSON.stringify drops a property whose value is undefined
StringifyResult(r) ==
  IF r.error = Undefined THEN [passed |-> r.passed]
  ELSE [passed |-> r.passed, error |-> r.error]

Stringify(state) ==
  [kind |-> "json",
   results |-> [k \in DOMAIN state.results |-> StringifyResult(state.results[k])],
   dependencies |-> state.dependencies]

\* (mutant) a result read back has just the properties the JSON text holds
ParseResult_Raw(j) == j

\* reading a property that the JSON text does not hold gives undefined
ParseResult(j) ==
  [passed |-> j.passed,
   error |-> IF "error" \in DOMAIN j THEN j.error ELSE Undefined]

MissingFile == [kind |-> "missing"]
CorruptFile == [kind |-> "corrupt"]

\* (mutant) the catch block answers with a snapshot kept from an earlier read
readState_KeepsLast(file) ==
  IF file.kind = "json"
  THEN [results |-> [k \in DOMAIN file.results |-> ParseResult(file.results[k])],
        dependencies |-> file.dependencies]
  ELSE [results |-> [k \in {"api"} |-> [passed |-> FALSE, error |-> "boom"]],
        dependencies |-> [k \in {"auth"} |-> <<"api">>]]

\* existsSync, readFileSync and JSON.parse inside try/catch: the parsed file, or
\* the empty StateFile when the file is missing or does not parse
readState(file) ==
  IF file.kind = "json"
  THEN [results |-> [k \in DOMAIN file.results |-> ParseResult(file.results[k])],
        dependencies |-> file.dependencies]
  ELSE EmptyState

VARIABLES
  stateFile,     \* content of .playwright-gatekeeper-state.json
  lockFile,      \* {} when the lock file is absent, else {pid written into it}
  tmpFiles,      \* pids whose temporary file exists
  faultsLeft,    \* file-system errors the run has yet to meet
  phase,         \* "setup", "running", "teardown", "done", "aborted"
  pc,            \* per process: position inside a store call
  op,            \* per process: the store call in progress, or the last one
  snap,          \* per process: the StateFile held in memory
  attempt,       \* per process: writeState's attempt counter
  status,        \* per process: how the last store call ended
  lockElapsed,   \* per process: ticks since acquireLock's startTime
  backoffLeft,   \* per process: 1 until a tick of acquireLock's busy wait has passed
  ncalls,        \* store calls issued under Spec
  wkeys,         \* per process: the keys given to waitForResults
  pollers,       \* per process: one waitForResult call for each of the keys
  wresults,      \* per process: waitForResults' Map, as <<key, result>> entries
  callElapsed,   \* per process: ticks since waitForResults was called
  seenAt,        \* per process and poller: when its key was seen in the file
  testInfo,      \* per test: status, error, skip message and what the test did
  cur,           \* per worker: the test it runs, or NoTest
  tpc,           \* per worker: position inside the test
  currentGatekeeperKey,  \* per worker: helpers.ts' module variable
  rstack,        \* per worker: the frames of getFailedDependency
  rvisited,      \* per worker: getFailedDependency's visited set
  rkeys,         \* the keys of a getFailedDependency call made on its own
  rout,          \* <<what that call returned>>, or <<>> while it runs
  rlog,          \* the keys whose dependencies that call went into, in order
  rseen          \* the contents the state file has had during that call, when
                 \* the call is made under SnapshotSpec ({} otherwise)

files == <<stateFile, lockFile, tmpFiles, faultsLeft>>
locals == <<snap, attempt>>
timers == <<lockElapsed, backoffLeft>>
wait == <<wkeys, pollers, wresults, callElapsed>>
\* what the callers of the store keep
tests == <<testInfo, cur, tpc, currentGatekeeperKey, rstack, rvisited>>
\* a getFailedDependency call made on its own, outside any test
probe == <<rkeys, rout, rlog, rseen>>
above == <<wait, seenAt, tests, probe>>
vars == <<files, phase, pc, op, locals, status, timers, ncalls, above>>

\* an fs call may fail while the run has errors left to meet
MayFail == faultsLeft > 0
Failed == faultsLeft' = faultsLeft - 1

NoOp == [name |-> "none"]
OpSetResult(k, r) == [name |-> "setResult", key |-> k, result |-> r]
OpRegister(k, deps) == [name |-> "registerGatekeeper", key |-> k, deps |-> deps]
OpInitialize == [name |-> "initialize"]

\* (mutant) the callback builds the StateFile afresh instead of changing the one
\* it read
Mutate_Fresh(state, o) ==
  IF o.name = "setResult"
  THEN [EmptyState EXCEPT !.results = Put(EmptyMap, o.key, o.result)]
  ELSE IF o.name = "registerGatekeeper" /\ Len(o.deps) > 0
  THEN [EmptyState EXCEPT !.dependencies = Put(EmptyMap, o.key, o.deps)]
  ELSE state

\* (mutant) registerGatekeeper writes the snapshot back as it read it
Mutate_ResultsOnly(state, o) ==
  IF o.name = "setResult"
  THEN [state EXCEPT !.results = Put(state.results, o.key, o.result)]
  ELSE state

\* the in-memory change the callback given to withLock makes
Mutate(state, o) ==
  IF o.name = "setResult"
  THEN [state EXCEPT !.results = Put(state.results, o.key, o.result)]
  ELSE IF o.name = "registerGatekeeper" /\ Len(o.deps) > 0
  THEN [state EXCEPT !.dependencies = Put(state.dependencies, o.key, o.deps)]
  ELSE state

\* (mutant) every method of the store runs inside withLock
Locked_Everything(o) == TRUE

\* (mutant) registerGatekeeper writes without withLock
Locked_SetResultOnly(o) == o.name = "setResult"

\* the operations whose body runs inside withLock
Locked(o) == o.name \in {"setResult", "registerGatekeeper"}

\* ------------------------------------------------------------ acquireLock
\* (mutant) the lock file is written without the exclusive flag
CanCreateLock_NoExcl(lf) == TRUE

\* (mutant) a lock file left by an earlier run is taken over
CanCreateLock_Recovering(lf) == lf \subseteq {StalePid}

\* fs.writeFileSync(lockFilePath, pid, { flag: 'wx' }) succeeds only when the
\* file does not exist
CanCreateLock(lf) == lf = {}

\* (mutant) the loop of acquireLock has no time limit
TimedOut_Never(elapsed) == FALSE

\* the negation of while (Date.now() - startTime < timeoutMs)
TimedOut(elapsed) == elapsed >= LockTimeout

AcquireTry(p) ==
  /\ pc[p] = "acquire"
  /\ ~TimedOut(lockElapsed[p])
  /\ IF CanCreateLock(lockFile)
     THEN /\ lockFile' = {p}
          /\ pc' = [pc EXCEPT ![p] = "read"]
          /\ lockElapsed' = [lockElapsed EXCEPT ![p] = 0]
          /\ UNCHANGED backoffLeft
     ELSE /\ backoffLeft' = [backoffLeft EXCEPT ![p] = 1]
          /\ pc' = [pc EXCEPT ![p] = "backoff"]
          /\ UNCHANGED <<lockFile, lockElapsed>>
  /\ UNCHANGED <<stateFile, tmpFiles, faultsLeft, phase, op, locals, status, ncalls, above>>

\* the busy wait of 5..25 ms is over: it lasts one tick at least
BackoffDone(p) ==
  /\ pc[p] = "backoff"
  /\ backoffLeft[p] = 0
  /\ pc' = [pc EXCEPT ![p] = "acquire"]
  /\ UNCHANGED <<files, phase, op, locals, status, timers, ncalls, above>>

\* (mutant) the throw sits inside the try block, so finally unlinks the file
LockAfterTimeout_Released(lf) == {}

\* withLock throws before its try block: releaseLock is not called
LockAfterTimeout(lf) == lf

\* the loop ends, acquireLock returns false and withLock throws
AcquireTimeout(p) ==
  /\ pc[p] = "acquire"
  /\ TimedOut(lockElapsed[p])
  /\ pc' = [pc EXCEPT ![p] = "returned"]
  /\ status' = [status EXCEPT ![p] = "LockTimeout"]
  /\ lockElapsed' = [lockElapsed EXCEPT ![p] = 0]
  /\ lockFile' = LockAfterTimeout(lockFile)
  /\ UNCHANGED <<stateFile, tmpFiles, faultsLeft, phase, op, locals, backoffLeft,
                 ncalls, above>>

\* ------------------------------------------------- the callback: read, change
ReadMutate(p) ==
  /\ pc[p] = "read"
  /\ snap' = [snap EXCEPT ![p] = Mutate(readState(stateFile), op[p])]
  /\ attempt' = [attempt EXCEPT ![p] = 0]
  /\ pc' = [pc EXCEPT ![p] = "write"]
  /\ UNCHANGED <<files, phase, op, status, timers, ncalls, above>>

\* ------------------------------------------------------------- writeState
\* fs.writeFileSync(tempPath, ...): done, or an error that may leave the file
WriteTemp(p) ==
  /\ pc[p] = "write"
  /\ \/ /\ tmpFiles' = tmpFiles \cup {p}
        /\ pc' = [pc EXCEPT ![p] = "rename"]
        /\ UNCHANGED faultsLeft
     \/ /\ MayFail /\ Failed
        /\ \E left \in BOOLEAN :
             tmpFiles' = IF left THEN tmpFiles \cup {p} ELSE tmpFiles
        /\ pc' = [pc EXCEPT ![p] = "wfail"]
  /\ UNCHANGED <<stateFile, lockFile, phase, op, locals, status, timers, ncalls, above>>

\* (mutant) withLock without its finally block
AfterWrite_NoFinally(o) == "returned"

\* where writeState's caller goes on: withLock's finally, or initialize's caller
AfterWrite(o) == IF Locked(o) THEN "release" ELSE "returned"

\* writeState is left, by return or by throw: its caller's StateFile is dropped
WriteEnds(p, how) ==
  /\ status' = [status EXCEPT ![p] = how]
  /\ pc' = [pc EXCEPT ![p] = AfterWrite(op[p])]
  /\ snap' = [snap EXCEPT ![p] = EmptyState]
  /\ attempt' = [attempt EXCEPT ![p] = 0]

\* fs.renameSync(tempPath, stateFilePath): replaces the file in one step, or fails
Rename(p) ==
  /\ pc[p] = "rename"
  /\ \/ /\ stateFile' = Stringify(snap[p])
        /\ tmpFiles' = tmpFiles \ {p}
        /\ WriteEnds(p, "ok")
        /\ rseen' = IF rseen # {} /\ rout = <<>>
                    THEN rseen \cup {Stringify(snap[p])} ELSE rseen
        /\ UNCHANGED faultsLeft
     \/ /\ MayFail /\ Failed
        /\ pc' = [pc EXCEPT ![p] = "wfail"]
        /\ UNCHANGED <<stateFile, tmpFiles, status, locals, rseen>>
  /\ UNCHANGED <<lockFile, phase, op, timers, ncalls, wait, seenAt, tests,
                 rkeys, rout, rlog>>

\* the catch block: remove the temporary file (an error there is ignored), then
\* go round the loop again, or leave it and throw
WriteFailed(p) ==
  /\ pc[p] = "wfail"
  /\ \/ tmpFiles' = tmpFiles \ {p} /\ UNCHANGED faultsLeft
     \/ p \in tmpFiles /\ MayFail /\ Failed /\ UNCHANGED tmpFiles
  /\ IF attempt[p] < maxRetries - 1
     THEN /\ attempt' = [attempt EXCEPT ![p] = attempt[p] + 1]
          /\ pc' = [pc EXCEPT ![p] = "write"]
          /\ UNCHANGED <<status, snap>>
     ELSE WriteEnds(p, "WriteExhausted")
  /\ UNCHANGED <<stateFile, lockFile, phase, op, timers, ncalls, above>>

\* ------------------------------------------------------------ releaseLock
\* (mutant) the lock file is left where it is
unlinkLock_Not(lf) == lf

\* fs.unlinkSync(this.lockFilePath) that raises no error
unlinkLock(lf) == {}

\* fs.unlinkSync(lockFilePath), whatever the file holds; an error is ignored
ReleaseLock(p) ==
  /\ pc[p] = "release"
  /\ \/ lockFile' = unlinkLock(lockFile) /\ UNCHANGED faultsLeft
     \/ lockFile # {} /\ MayFail /\ Failed /\ UNCHANGED lockFile
  /\ pc' = [pc EXCEPT ![p] = "returned"]
  /\ UNCHANGED <<stateFile, tmpFiles, phase, op, locals, status, timers, ncalls, above>>

\* one step of whatever store call process p is in
StoreStep(p) ==
  \/ AcquireTry(p)
  \/ BackoffDone(p)
  \/ AcquireTimeout(p)
  \/ ReadMutate(p)
  \/ WriteTemp(p)
  \/ Rename(p)
  \/ ReleaseLock(p)

\* ------------------------------------------------------------------- time
Min(a, b) == IF a < b THEN a ELSE b

InAcquire(p) == pc[p] \in {"acquire", "backoff"}

LockTimersAfterTick ==
  /\ lockElapsed' = [p \in Pids |->
       IF InAcquire(p) THEN Min(lockElapsed[p] + 1, LockTimeout) ELSE lockElapsed[p]]
  /\ backoffLeft' = [p \in Pids |->
       IF pc[p] = "backoff" THEN 0 ELSE backoffLeft[p]]

LockTimerRuns ==
  \E p \in Pids : \/ InAcquire(p) /\ lockElapsed[p] < LockTimeout
                  \/ pc[p] = "backoff" /\ backoffLeft[p] > 0

\* an optional GatekeeperResult: undefined, or the result
Absent == <<>>
Some(r) == <<r>>

\* getResult(key): state.results[key] of a fresh readState()
getResult(file, key) ==
  LET state == readState(file)
  IN IF key \in DOMAIN state.results THEN Some(state.results[key]) ELSE Absent

\* Map.set: a new key is appended, a known key keeps its place
MapSet(m, k, v) ==
  IF \E j \in 1..Len(m) : m[j][1] = k
  THEN [j \in 1..Len(m) |-> IF m[j][1] = k THEN <<k, v>> ELSE m[j]]
  ELSE Append(m, <<k, v>>)

MapKeys(m) == {m[j][1] : j \in 1..Len(m)}

Range(s) == {s[i] : i \in 1..Len(s)}

\* ---------------------------------------------------------- waitForResult
\* one waitForResult call: "ready" to run its loop, in setTimeout ("sleep"),
\* or "done" with its return value
NewPoller == [st |-> "ready", elapsed |-> 0, left |-> 0, res |-> Absent]

Waiting(p) == \E i \in 1..Len(pollers[p]) : pollers[p][i].st # "done"

\* (mutant) the keys are awaited one after the other
PollerMayRun_Sequential(ps, i) == \A j \in 1..(i - 1) : ps[j].st = "done"

\* Promise.all(keys.map(async ...)): every waitForResult call starts at once
PollerMayRun(ps, i) == TRUE

Due(ps, i) == ps[i].st = "ready" /\ PollerMayRun(ps, i)

\* timers of one delay fire in the order they were set
NextDue(ps, i) == Due(ps, i) /\ \A j \in 1..(i - 1) : ~Due(ps, j)

\* (mutant) the loop gives up after its first look
PollAgain_Once(elapsed) == FALSE

\* while (Date.now() - startTime < timeoutMs)
PollAgain(elapsed) == elapsed < WaitTimeout

\* one turn of waitForResult's loop, up to its setTimeout or its return; the
\* async callback then stores what it returned in the Map
PollStep(p, i) ==
  /\ i \in 1..Len(pollers[p])
  /\ NextDue(pollers[p], i)
  /\ LET me == pollers[p][i]
         key == wkeys[p][i]
         found == IF PollAgain(me.elapsed) THEN getResult(stateFile, key) ELSE Absent
     IN IF PollAgain(me.elapsed) /\ found = Absent
        THEN /\ pollers' = [pollers EXCEPT ![p][i] =
                              [me EXCEPT !.st = "sleep", !.left = PollInterval]]
             /\ UNCHANGED wresults
        ELSE /\ pollers' = [pollers EXCEPT ![p][i] =
                              [me EXCEPT !.st = "done", !.res = found]]
             /\ wresults' = [wresults EXCEPT ![p] = MapSet(@, key, found)]
  /\ UNCHANGED <<files, phase, pc, op, locals, status, timers, ncalls, wkeys,
                 callElapsed, seenAt, tests, probe>>

\* the event loop of process p runs the timer that is due
Poll(p) == \E i \in 1..Len(pollers[p]) : PollStep(p, i)

\* seenAt of a call whose key has not been seen in the file
Never == 0 - 1

\* waitForResults(keys, timeoutMs) is called
StartWait(p, keys) ==
  /\ wkeys' = [wkeys EXCEPT ![p] = keys]
  /\ pollers' = [pollers EXCEPT ![p] = [i \in 1..Len(keys) |-> NewPoller]]
  /\ wresults' = [wresults EXCEPT ![p] = <<>>]
  /\ callElapsed' = [callElapsed EXCEPT ![p] = 0]
  /\ seenAt' = [seenAt EXCEPT ![p] = [i \in 1..Len(keys) |-> Never]]

\* ------------------------------------------------------------------- Tick
WaitBound == WaitTimeout + PollInterval

PollersAfterTick(ps) ==
  [i \in 1..Len(ps) |->
     IF ps[i].st = "sleep"
     THEN [st |-> IF ps[i].left = 1 THEN "ready" ELSE "sleep",
           elapsed |-> Min(ps[i].elapsed + 1, WaitTimeout),
           left |-> ps[i].left - 1,
           res |-> ps[i].res]
     ELSE ps[i]]

\* history of the file during a call: how long a waitForResult call had been
\* running, still short of its timeout, when the clock moved on with a result
\* for its key in the file
SeenAfterTick(p) ==
  [i \in 1..Len(pollers[p]) |->
     IF /\ seenAt[p][i] = Never
        /\ pollers[p][i].st = "sleep"
        /\ pollers[p][i].elapsed < WaitTimeout
        /\ getResult(stateFile, wkeys[p][i]) # Absent
     THEN pollers[p][i].elapsed
     ELSE seenAt[p][i]]

Sleeping(p) == \E i \in 1..Len(pollers[p]) : pollers[p][i].st = "sleep"

\* a timer that is due fires before the clock moves on
TimerDue == \E p \in Workers : \E i \in 1..Len(pollers[p]) : Due(pollers[p], i)

Tick ==
  /\ LockTimerRuns \/ \E p \in Workers : Sleeping(p)
  /\ ~TimerDue
  /\ LockTimersAfterTick
  /\ pollers' = [p \in Workers |-> PollersAfterTick(pollers[p])]
  /\ callElapsed' = [p \in Workers |->
       IF Waiting(p) THEN Min(callElapsed[p] + 1, WaitBound + 1) ELSE callElapsed[p]]
  /\ seenAt' = [p \in Workers |-> SeenAfterTick(p)]
  /\ UNCHANGED <<files, phase, pc, op, locals, status, ncalls, wkeys, wresults,
                 tests, probe>>

\* ----------------------------------------------------- entering a store call
\* (mutant) initialize starts the run with a result already recorded
initialState_Seeded ==
  [results |-> [k \in {"api"} |-> MkResult(TRUE, Undefined)], dependencies |-> EmptyMap]

\* initialize(): const initialState = { results: {}, dependencies: {} }
initialState == [results |-> EmptyMap, dependencies |-> EmptyMap]

\* withLock(fn) starts with acquireLock(); initialize() calls writeState directly
Enter(p, o) ==
  /\ op' = [op EXCEPT ![p] = o]
  /\ status' = [status EXCEPT ![p] = "running"]
  /\ lockElapsed' = [lockElapsed EXCEPT ![p] = 0]
  /\ attempt' = [attempt EXCEPT ![p] = 0]
  /\ IF Locked(o)
     THEN /\ pc' = [pc EXCEPT ![p] = "acquire"]
          /\ UNCHANGED snap
     ELSE /\ pc' = [pc EXCEPT ![p] = "write"]
          /\ snap' = [snap EXCEPT ![p] = initialState]
  /\ UNCHANGED backoffLeft

\* ------------------------------------------------- globalSetup and the reporter
\* globalSetup(): state.initialize(), before any worker starts
GlobalSetup ==
  /\ phase = "setup"
  /\ pc[MainPid] = "idle"
  /\ Enter(MainPid, OpInitialize)
  /\ UNCHANGED <<files, phase, ncalls, above>>

SetupDone ==
  /\ phase = "setup"
  /\ pc[MainPid] = "returned"
  /\ pc' = [pc EXCEPT ![MainPid] = "idle"]
  /\ phase' = IF status[MainPid] = "ok" THEN "running" ELSE "aborted"
  /\ UNCHANGED <<files, op, locals, status, timers, ncalls, above>>

WorkersIdle == \A p \in Workers : pc[p] = "idle" /\ tpc[p] = "idle"

\* onEnd() runs when every test has ended
RunEnds ==
  /\ phase = "running"
  /\ WorkersIdle
  /\ phase' = "teardown"
  /\ pc' = [pc EXCEPT ![MainPid] = "cleanupState"]
  /\ UNCHANGED <<files, op, locals, status, timers, ncalls, above>>

\* cleanup(): unlink the state file when it exists; an error is swallowed
CleanupState ==
  /\ pc[MainPid] = "cleanupState"
  /\ \/ stateFile' = MissingFile /\ UNCHANGED faultsLeft
     \/ stateFile.kind # "missing" /\ MayFail /\ Failed /\ UNCHANGED stateFile
  /\ pc' = [pc EXCEPT ![MainPid] = "cleanupLock"]
  /\ UNCHANGED <<lockFile, tmpFiles, phase, op, locals, status, timers, ncalls, above>>

\* cleanup(): unlink the lock file when it exists; an error is swallowed
CleanupLock ==
  /\ pc[MainPid] = "cleanupLock"
  /\ \/ lockFile' = unlinkLock(lockFile) /\ UNCHANGED faultsLeft
     \/ lockFile # {} /\ MayFail /\ Failed /\ UNCHANGED lockFile
  /\ pc' = [pc EXCEPT ![MainPid] = "idle"]
  /\ phase' = "done"
  /\ UNCHANGED <<stateFile, tmpFiles, op, locals, status, timers, ncalls, above>>

\* --------------------------------------------- Spec: workers call the store
CallSetResult(p) ==
  /\ phase = "running"
  /\ pc[p] = "idle"
  /\ ncalls < MaxCalls
  /\ \E k \in CallKeys, r \in CallResults : Enter(p, OpSetResult(k, r))
  /\ ncalls' = ncalls + 1
  /\ UNCHANGED <<files, phase, above>>

CallRegisterGatekeeper(p) ==
  /\ phase = "running"
  /\ pc[p] = "idle"
  /\ ncalls < MaxCalls
  /\ \E k \in CallKeys, d \in CallDeps : Enter(p, OpRegister(k, d))
  /\ ncalls' = ncalls + 1
  /\ UNCHANGED <<files, phase, above>>

CallReturns(p) ==
  /\ phase = "running"
  /\ pc[p] = "returned"
  /\ pc' = [pc EXCEPT ![p] = "idle"]
  /\ UNCHANGED <<files, phase, op, locals, status, timers, ncalls, above>>

\* what an earlier run that was killed may have left in the directory
LeftoverState ==
  [results |-> Put(EmptyMap, "api", MkResult(FALSE, "boom")),
   dependencies |-> Put(EmptyMap, "auth", <<"api">>)]

InitFiles ==
  /\ stateFile \in {MissingFile, CorruptFile, Stringify(LeftoverState)}
  /\ lockFile \in {{}, {StalePid}}
  /\ tmpFiles = {}

\* ------------------------------------------------------------- the tests
\* the suite: gatekeepers call markAs(key, keys) first, the other tests call
\* dependsOn(...keys) first
Suite ==
  << [kind |-> "markAs", key |-> "api", keys |-> <<>>],
     [kind |-> "markAs", key |-> "auth", keys |-> <<"api">>],
     [kind |-> "dependsOn", key |-> "", keys |-> <<"auth">>],
     [kind |-> "dependsOn", key |-> "", keys |-> <<"auth", "api">>] >>

TestIds == 1..Len(Suite)
NoTest == 0

\* currentGatekeeperKey = null
NoKey == "null"

\* getFailedDependency returns null, or <<FailedDependencyInfo>>
Null == <<>>

\* how a test body may end: it returns, an expect throws, or it calls test.skip()
BodyOutcomes(t) ==
  IF Suite[t].kind = "dependsOn"
  THEN {[status |-> "passed", error |-> Undefined]}
  ELSE {[status |-> "passed", error |-> Undefined],
        [status |-> "failed", error |-> "boom"]}
       \cup (IF Suite[t].keys = <<>>
             THEN {[status |-> "skipped", error |-> Undefined]}
             ELSE {})

NoMessage == [text |-> "", key |-> "", error |-> "", chain |-> <<>>]

NewTestInfo ==
  [status |-> "pending", error |-> Undefined, message |-> NoMessage,
   asked |-> FALSE, found |-> Null, calls |-> <<>>, ran |-> FALSE, after |-> {}]

Ended(t) == testInfo[t].status \in {"passed", "failed", "skipped"}

\* the keys of the gatekeepers that markAs has aborted so far
AbortedKeys ==
  {Suite[u].key : u \in {v \in TestIds : /\ Suite[v].kind = "markAs"
                                         /\ testInfo[v].status = "skipped"
                                         /\ ~testInfo[v].ran}}

InitTests ==
  /\ testInfo = [t \in TestIds |-> NewTestInfo]
  /\ cur = [p \in Workers |-> NoTest]
  /\ tpc = [p \in Workers |-> "idle"]
  /\ currentGatekeeperKey = [p \in Workers |-> NoKey]
  /\ rstack = [p \in Workers |-> <<>>]
  /\ rvisited = [p \in Workers |-> {}]

\* ---------------------------------------------------- getFailedDependency
\* a call of getFailedDependency(keys, visited): its keys, the index of the key
\* its loop is at, and the StateFile it read on entry
\* (mutant) the keys are gone through from the last to the first
Frame_Reversed(keys) ==
  [keys |-> [j \in 1..Len(keys) |-> keys[Len(keys) + 1 - j]], i |-> 1,
   state |-> EmptyState]

Frame(keys) == [keys |-> keys, i |-> 1, state |-> EmptyState]

\* (mutant) the chain is cut down to the failed key
Failure_Flat(key, error, chain) == <<[key |-> key, error |-> error, chain |-> <<key>>]>>

Failure(key, error, chain) == <<[key |-> key, error |-> error, chain |-> chain]>>

Pop(stack) == SubSeq(stack, 1, Len(stack) - 1)

\* (mutant) the loop steps over every other key
NextKey_Skip(stack) == [stack EXCEPT ![Len(stack)].i = @ + 2]

NextKey(stack) == [stack EXCEPT ![Len(stack)].i = @ + 1]

\* (mutant) no key counts as visited
HasVisited_Never(visited, key) == FALSE

\* visited.has(key)
HasVisited(visited, key) == key \in visited

\* (mutant) only a key without a result is looked through
transitiveDeps_PendingOnly(state, key) ==
  IF key \in DOMAIN state.dependencies /\ key \notin DOMAIN state.results
  THEN state.dependencies[key] ELSE <<>>

\* const transitiveDeps = state.dependencies[key] || []
transitiveDeps(state, key) ==
  IF key \in DOMAIN state.dependencies THEN state.dependencies[key] ELSE <<>>

RECURSIVE Advance(_, _), ReturnTo(_, _, _)

\* the for loop of the innermost call, from key i on, up to the next recursive
\* call (which starts with a readState) or up to its return
Advance(stack, visited) ==
  LET f == stack[Len(stack)]
  IN IF f.i > Len(f.keys)
     THEN ReturnTo(Pop(stack), visited, Null)
     ELSE LET key == f.keys[f.i]
              seen == visited \cup {key}
          IN IF HasVisited(visited, key)
             THEN Advance(NextKey(stack), visited)
             ELSE IF key \in DOMAIN f.state.results /\ ~f.state.results[key].passed
             THEN ReturnTo(Pop(stack), seen,
                           Failure(key, f.state.results[key].error, <<key>>))
             ELSE IF Len(transitiveDeps(f.state, key)) > 0
             THEN [stack |-> Append(stack, Frame(transitiveDeps(f.state, key))),
                   visited |-> seen,
                   done |-> FALSE, out |-> Null]
             ELSE Advance(NextKey(stack), seen)

\* a call returns ret to the call that made it; the outermost return ends the
\* resolution
ReturnTo(stack, visited, ret) ==
  IF stack = <<>>
  THEN [stack |-> stack, visited |-> visited, done |-> TRUE, out |-> ret]
  ELSE LET f == stack[Len(stack)]
           key == f.keys[f.i]
       IN IF ret # Null
          THEN ReturnTo(Pop(stack), visited,
                        Failure(ret[1].key, ret[1].error, <<key>> \o ret[1].chain))
          ELSE Advance(NextKey(stack), visited)

\* const state = this.readState() of the innermost call, then its loop
AfterRead(stack, visited, file) ==
  Advance([stack EXCEPT ![Len(stack)].state = readState(file)], visited)

\* ------------------------------------------------------- the skip messages
Truthy(str) == str \notin {Undefined, ""}

\* (mutant) the chain is shown whatever its length
formatDependencyChain_Always(chain) == chain

\* chain.length <= 1 ? '' : ` (chain: ${chain.join(' -> ')})`
formatDependencyChain(chain) == IF Len(chain) <= 1 THEN <<>> ELSE chain

\* `Skipped: dependency '${failed.key}' failed${chainStr}`
MarkAsMessage(failed) ==
  [text |-> "failed", key |-> failed.key, error |-> "",
   chain |-> formatDependencyChain(failed.chain)]

\* `Skipped: dependency '${failed.key}' failed${errorStr}${chainStr}`
DependsOnMessage(failed) ==
  [text |-> "failed", key |-> failed.key,
   error |-> IF Truthy(failed.error) THEN failed.error ELSE "",
   chain |-> formatDependencyChain(failed.chain)]

\* `Skipped: dependency '${key}' did not complete within ${timeoutMs}ms ...`
TimeoutMessage(key) ==
  [text |-> "did not complete", key |-> key, error |-> "", chain |-> <<>>]

\* ----------------------------------------------------------- test steps
NoStoreCall == UNCHANGED <<files, phase, pc, op, locals, status, timers, ncalls>>

\* a synchronous store call starts
StoreCall(p, o) == Enter(p, o) /\ UNCHANGED <<files, phase, ncalls>>

NoResolver == UNCHANGED <<rstack, rvisited>>

\* state.getFailedDependency(keys) is called
StartResolver(p, keys) ==
  /\ rstack' = [rstack EXCEPT ![p] = <<Frame(keys)>>]
  /\ rvisited' = [rvisited EXCEPT ![p] = {}]

\* test.skip(true, message): the test ends as skipped, its body is left
Skipped(info, message) == [info EXCEPT !.status = "skipped", !.message = message]

\* an exception leaves the test
Thrown(info, error) == [info EXCEPT !.status = "failed", !.error = error]

\* (mutant) markAs goes on whatever the resolver returned
MarkAsAborts_Never(failed) == FALSE

\* if (failed) in markAs
MarkAsAborts(failed) == failed # Null

\* (mutant) undefined is not told from a result
IsAbsent_Never(result) == FALSE

\* if (result === undefined) in dependsOn
IsAbsent(result) == result = Absent

\* for (const [key, result] of results): the first entry without a result
FirstAbsent(m) == CHOOSE j \in 1..Len(m) :
  IsAbsent(m[j][2]) /\ \A h \in 1..(j - 1) : ~IsAbsent(m[h][2])

\* a worker takes a test whose first statement is markAs(key, dependencies)
MarkAs(p, t) ==
  /\ phase = "running"
  /\ pc[p] = "idle" /\ tpc[p] = "idle"
  /\ testInfo[t].status = "pending"
  /\ Suite[t].kind = "markAs"
  /\ cur' = [cur EXCEPT ![p] = t]
  /\ LET info == [testInfo[t] EXCEPT !.status = "running",
                                     !.after = AbortedKeys]
     IN IF Len(Suite[t].keys) > 0
        THEN /\ StartResolver(p, Suite[t].keys)
             /\ testInfo' = [testInfo EXCEPT ![t] = [info EXCEPT !.asked = TRUE]]
             /\ tpc' = [tpc EXCEPT ![p] = "markAs_resolve"]
             /\ NoStoreCall
        ELSE /\ StoreCall(p, OpRegister(Suite[t].key, Suite[t].keys))
             /\ testInfo' = [testInfo EXCEPT ![t] =
                  [info EXCEPT !.calls = Append(@, "registerGatekeeper")]]
             /\ tpc' = [tpc EXCEPT ![p] = "markAs_register"]
             /\ NoResolver
  /\ UNCHANGED <<wait, seenAt, currentGatekeeperKey, probe>>

\* a worker takes a test whose first statement is await dependsOn(...keys)
DependsOn(p, t) ==
  /\ phase = "running"
  /\ pc[p] = "idle" /\ tpc[p] = "idle"
  /\ testInfo[t].status = "pending"
  /\ Suite[t].kind = "dependsOn"
  /\ cur' = [cur EXCEPT ![p] = t]
  /\ LET info == [testInfo[t] EXCEPT !.status = "running",
                                     !.after = AbortedKeys]
     IN IF Len(Suite[t].keys) = 0
        THEN /\ testInfo' = [testInfo EXCEPT ![t] = [info EXCEPT !.ran = TRUE]]
             /\ tpc' = [tpc EXCEPT ![p] = "body"]
             /\ UNCHANGED <<pc, wait, seenAt>>
        ELSE /\ StartWait(p, Suite[t].keys)
             /\ testInfo' = [testInfo EXCEPT ![t] = info]
             /\ pc' = [pc EXCEPT ![p] = "waiting"]
             /\ tpc' = [tpc EXCEPT ![p] = "dependsOn_wait"]
  /\ UNCHANGED <<files, phase, op, locals, status, timers, ncalls,
                 currentGatekeeperKey, rstack, rvisited, probe>>

\* markAs after getFailedDependency has returned
MarkAsChecked(p, t, failed) ==
  IF MarkAsAborts(failed)
  THEN /\ testInfo' = [testInfo EXCEPT ![t] =
            Skipped([@ EXCEPT !.found = failed], MarkAsMessage(failed[1]))]
       /\ tpc' = [tpc EXCEPT ![p] = "teardown"]
       /\ NoStoreCall
  ELSE /\ testInfo' = [testInfo EXCEPT ![t] =
            [@ EXCEPT !.found = failed, !.calls = Append(@, "registerGatekeeper")]]
       /\ StoreCall(p, OpRegister(Suite[t].key, Suite[t].keys))
       /\ tpc' = [tpc EXCEPT ![p] = "markAs_register"]

\* (mutant) dependsOn goes on whatever the resolver returned
DependsOnSkips_Never(failed) == FALSE

\* if (failed) in dependsOn
DependsOnSkips(failed) == failed # Null

\* dependsOn after getFailedDependency has returned
DependsOnChecked(p, t, failed) ==
  /\ IF DependsOnSkips(failed)
     THEN /\ testInfo' = [testInfo EXCEPT ![t] =
               Skipped([@ EXCEPT !.found = failed], DependsOnMessage(failed[1]))]
          /\ tpc' = [tpc EXCEPT ![p] = "teardown"]
     ELSE /\ testInfo' = [testInfo EXCEPT ![t] = [@ EXCEPT !.ran = TRUE]]
          /\ tpc' = [tpc EXCEPT ![p] = "body"]
  /\ NoStoreCall

\* getFailedDependency: one readState and what follows it up to the next
\* readState, or up to the return to markAs or dependsOn and what they do with
\* the answer
ResolverStep(p) ==
  /\ tpc[p] \in {"markAs_resolve", "dependsOn_resolve"}
  /\ LET r == AfterRead(rstack[p], rvisited[p], stateFile)
     IN IF ~r.done
        THEN /\ rstack' = [rstack EXCEPT ![p] = r.stack]
             /\ rvisited' = [rvisited EXCEPT ![p] = r.visited]
             /\ UNCHANGED <<testInfo, tpc>>
             /\ NoStoreCall
        ELSE /\ rstack' = [rstack EXCEPT ![p] = <<>>]
             /\ rvisited' = [rvisited EXCEPT ![p] = {}]
             /\ IF tpc[p] = "markAs_resolve"
                THEN MarkAsChecked(p, cur[p], r.out)
                ELSE DependsOnChecked(p, cur[p], r.out)
  /\ UNCHANGED <<wait, seenAt, cur, currentGatekeeperKey, probe>>

\* registerGatekeeper has returned or thrown; currentGatekeeperKey = key
Registered(p) ==
  /\ tpc[p] = "markAs_register"
  /\ pc[p] = "returned"
  /\ pc' = [pc EXCEPT ![p] = "idle"]
  /\ IF status[p] = "ok"
     THEN /\ currentGatekeeperKey' = [currentGatekeeperKey EXCEPT ![p] = Suite[cur[p]].key]
          /\ testInfo' = [testInfo EXCEPT ![cur[p]].ran = TRUE]
          /\ tpc' = [tpc EXCEPT ![p] = "body"]
     ELSE /\ testInfo' = [testInfo EXCEPT ![cur[p]] = Thrown(@, status[p])]
          /\ tpc' = [tpc EXCEPT ![p] = "teardown"]
          /\ UNCHANGED currentGatekeeperKey
  /\ UNCHANGED <<files, phase, op, locals, status, timers, ncalls, wait, seenAt,
                 cur, rstack, rvisited, probe>>

\* the rest of the test body runs and ends
BodyEnds(p) ==
  /\ tpc[p] = "body"
  /\ \E o \in BodyOutcomes(cur[p]) :
       testInfo' = [testInfo EXCEPT ![cur[p]] =
                      [@ EXCEPT !.status = o.status, !.error = o.error]]
  /\ tpc' = [tpc EXCEPT ![p] = "teardown"]
  /\ NoStoreCall
  /\ UNCHANGED <<wait, seenAt, cur, currentGatekeeperKey, rstack, rvisited, probe>>

\* waitForResults has returned its Map to dependsOn
WaitOver(p) ==
  /\ tpc[p] = "dependsOn_wait"
  /\ pc[p] = "waiting"
  /\ ~Waiting(p)
  /\ pc' = [pc EXCEPT ![p] = "idle"]
  /\ IF \E j \in 1..Len(wresults[p]) : IsAbsent(wresults[p][j][2])
     THEN /\ testInfo' = [testInfo EXCEPT ![cur[p]] =
               Skipped(@, TimeoutMessage(wresults[p][FirstAbsent(wresults[p])][1]))]
          /\ tpc' = [tpc EXCEPT ![p] = "teardown"]
          /\ NoResolver
     ELSE /\ StartResolver(p, Suite[cur[p]].keys)
          /\ testInfo' = [testInfo EXCEPT ![cur[p]].asked = TRUE]
          /\ tpc' = [tpc EXCEPT ![p] = "dependsOn_resolve"]
  /\ UNCHANGED <<files, phase, op, locals, status, timers, ncalls, wait, seenAt,
                 cur, currentGatekeeperKey, probe>>

\* a worker process whose test failed is replaced: the module variable of the
\* next test's process is the initial null
AfterTest(key, info) == IF info.status = "failed" THEN NoKey ELSE key

\* the test function has returned: what dependsOn and waitForResults held is gone
EndWait(p) ==
  /\ wkeys' = [wkeys EXCEPT ![p] = <<>>]
  /\ pollers' = [pollers EXCEPT ![p] = <<>>]
  /\ wresults' = [wresults EXCEPT ![p] = <<>>]
  /\ callElapsed' = [callElapsed EXCEPT ![p] = 0]
  /\ seenAt' = [seenAt EXCEPT ![p] = <<>>]

\* (mutant) a test that did not fail counts as passed
StatusPassed_NotFailed(info) == info.status # "failed"

\* const passed = testInfo.status === 'passed'
StatusPassed(info) == info.status = "passed"

\* autoTrackGatekeeper after use(): record the result if a key is set
Teardown(p) ==
  /\ tpc[p] = "teardown"
  /\ IF currentGatekeeperKey[p] # NoKey
     THEN /\ StoreCall(p, OpSetResult(currentGatekeeperKey[p],
                  MkResult(StatusPassed(testInfo[cur[p]]), testInfo[cur[p]].error)))
          /\ testInfo' = [testInfo EXCEPT ![cur[p]].calls = Append(@, "setResult")]
          /\ tpc' = [tpc EXCEPT ![p] = "recording"]
          /\ UNCHANGED <<cur, currentGatekeeperKey, wait, seenAt>>
     ELSE /\ EndWait(p)
          /\ tpc' = [tpc EXCEPT ![p] = "idle"]
          /\ cur' = [cur EXCEPT ![p] = NoTest]
          /\ currentGatekeeperKey' = [currentGatekeeperKey EXCEPT ![p] = NoKey]
          /\ UNCHANGED testInfo
          /\ NoStoreCall
  /\ UNCHANGED <<rstack, rvisited, probe>>

\* setResult has returned: recordGatekeeperResult sets the key to null and the
\* fixture ends.  Or setResult has thrown: the exception leaves
\* recordGatekeeperResult and the fixture before either clears the key, and the
\* test has failed in its teardown
Recorded(p) ==
  /\ tpc[p] = "recording"
  /\ pc[p] = "returned"
  /\ pc' = [pc EXCEPT ![p] = "idle"]
  /\ IF status[p] = "ok"
     THEN /\ currentGatekeeperKey' = [currentGatekeeperKey EXCEPT ![p] = NoKey]
          /\ tpc' = [tpc EXCEPT ![p] = "idle"]
          /\ cur' = [cur EXCEPT ![p] = NoTest]
          /\ UNCHANGED testInfo
     ELSE /\ testInfo' = [testInfo EXCEPT ![cur[p]] = Thrown(@, status[p])]
          /\ tpc' = [tpc EXCEPT ![p] = "exiting"]
          /\ UNCHANGED <<cur, currentGatekeeperKey>>
  /\ UNCHANGED <<files, phase, op, locals, status, timers, ncalls, wait, seenAt,
                 rstack, rvisited, probe>>

\* the worker whose test failed in its teardown exits and a new process takes
\* its place
WorkerReplaced(p) ==
  /\ tpc[p] = "exiting"
  /\ tpc' = [tpc EXCEPT ![p] = "idle"]
  /\ currentGatekeeperKey' = [currentGatekeeperKey EXCEPT ![p] =
       AfterTest(currentGatekeeperKey[p], testInfo[cur[p]])]
  /\ cur' = [cur EXCEPT ![p] = NoTest]
  /\ NoStoreCall
  /\ UNCHANGED <<wait, seenAt, testInfo, rstack, rvisited, probe>>

InitProbe ==
  /\ rkeys = <<>>
  /\ rout = <<>>
  /\ rlog = <<>>
  /\ rseen = {}

InitWait ==
  /\ wkeys = [p \in Workers |-> <<>>]
  /\ pollers = [p \in Workers |-> <<>>]
  /\ wresults = [p \in Workers |-> <<>>]
  /\ callElapsed = [p \in Workers |-> 0]
  /\ seenAt = [p \in Workers |-> <<>>]

InitProcs ==
  /\ pc = [p \in Pids |-> "idle"]
  /\ op = [p \in Pids |-> NoOp]
  /\ snap = [p \in Pids |-> EmptyState]
  /\ attempt = [p \in Pids |-> 0]
  /\ status = [p \in Pids |-> "none"]
  /\ lockElapsed = [p \in Pids |-> 0]
  /\ backoffLeft = [p \in Pids |-> 0]

\* Spec: the workers call setResult and registerGatekeeper on a file system
\* that raises no error
Init ==
  /\ InitFiles
  /\ InitProcs
  /\ InitWait
  /\ InitTests
  /\ InitProbe
  /\ faultsLeft = 0
  /\ phase = "setup"
  /\ ncalls = 0

Next ==
  \/ GlobalSetup
  \/ SetupDone
  \/ RunEnds
  \/ CleanupState
  \/ CleanupLock
  \/ Tick
  \/ \E p \in Pids : StoreStep(p)
  \/ \E p \in Workers : CallSetResult(p)
  \/ \E p \in Workers : CallRegisterGatekeeper(p)
  \/ \E p \in Workers : CallReturns(p)

Spec == Init /\ [][Next]_vars

\* FaultSpec: the same calls on a file system that may refuse up to MaxFaults
\* writes, renames and unlinks
FaultInit ==
  /\ InitFiles
  /\ InitProcs
  /\ InitWait
  /\ InitTests
  /\ InitProbe
  /\ faultsLeft = MaxFaults
  /\ phase = "setup"
  /\ ncalls = 0

FaultNext ==
  \/ Next
  \/ \E p \in Pids : WriteFailed(p)

FaultSpec == FaultInit /\ [][FaultNext]_vars

\* a process inside a synchronous store call keeps running and the clock keeps
\* going; nothing is assumed about the other processes
FaultFairness ==
  /\ WF_vars(Tick)
  /\ WF_vars(StoreStep(Caller) \/ WriteFailed(Caller))

FairFaultSpec == FaultSpec /\ FaultFairness

\* ------------------------- WaitSpec: workers call waitForResults and setResult
WaitKeyLists == {<<"api">>, <<"api", "auth">>, <<"auth", "auth">>}

CallWaitFor(p) ==
  /\ phase = "running"
  /\ pc[p] = "idle"
  /\ ncalls < MaxCalls
  /\ \E keys \in WaitKeyLists : StartWait(p, keys)
  /\ pc' = [pc EXCEPT ![p] = "waiting"]
  /\ ncalls' = ncalls + 1
  /\ UNCHANGED <<files, phase, op, locals, status, timers, tests, probe>>

\* Promise.all has resolved and waitForResults returns its Map
WaitReturns(p) ==
  /\ pc[p] = "waiting"
  /\ ~Waiting(p)
  /\ pc' = [pc EXCEPT ![p] = "idle"]
  /\ UNCHANGED <<files, phase, op, locals, status, timers, ncalls, above>>

WaitNext ==
  \/ GlobalSetup
  \/ SetupDone
  \/ RunEnds
  \/ CleanupState
  \/ CleanupLock
  \/ Tick
  \/ \E p \in Pids : StoreStep(p)
  \/ \E p \in Workers : CallSetResult(p)
  \/ \E p \in Workers : CallReturns(p)
  \/ \E p \in Workers : CallWaitFor(p)
  \/ \E p \in Workers : Poll(p)
  \/ \E p \in Workers : WaitReturns(p)

WaitSpec == Init /\ [][WaitNext]_vars

\* ------ StaleSpec: store calls and waits in a run whose workers may be killed
\* a worker process ends between acquireLock and releaseLock: the finally
\* block of withLock does not run and the lock file stays
Killed(p) ==
  /\ phase = "running"
  /\ Locked(op[p])
  /\ pc[p] \in {"read", "write", "rename", "release"}
  /\ pc' = [pc EXCEPT ![p] = "stopped"]
  /\ status' = [status EXCEPT ![p] = "killed"]
  /\ UNCHANGED <<files, phase, op, locals, timers, ncalls, above>>

StaleNext ==
  \/ WaitNext
  \/ \E p \in Workers : CallRegisterGatekeeper(p)
  \/ \E p \in Workers : Killed(p)

StaleSpec == Init /\ [][StaleNext]_vars

\* ------------- ResolverSpec: getFailedDependency(keys) on a store that stays put
\* the results and dependency lists a state file may hold
ResolverResults ==
  {MkResult(TRUE, Undefined), MkResult(FALSE, "boom"), MkResult(FALSE, Undefined)}

ResolverDeps ==
  {<<"api">>, <<"auth">>, <<"db">>, <<"auth", "db">>, <<"db", "api">>}

MapsInto(values) == UNION {[D -> values] : D \in SUBSET Keys}

ResolverStates ==
  {[results |-> r, dependencies |-> d] : r \in MapsInto(ResolverResults),
                                         d \in MapsInto(ResolverDeps)}

\* the keys getFailedDependency is called with
ResolverKeyLists ==
  {<<"api">>, <<"auth", "api">>, <<"auth", "api", "db">>, <<"db", "db">>}

ResolverInit ==
  /\ \E state \in ResolverStates : stateFile = Stringify(state)
  /\ lockFile = {}
  /\ tmpFiles = {}
  /\ faultsLeft = 0
  /\ phase = "running"
  /\ ncalls = 0
  /\ InitProcs
  /\ InitWait
  /\ testInfo = [t \in TestIds |-> NewTestInfo]
  /\ cur = [p \in Workers |-> NoTest]
  /\ tpc = [p \in Workers |-> "idle"]
  /\ currentGatekeeperKey = [p \in Workers |-> NoKey]
  /\ rkeys \in ResolverKeyLists
  /\ rstack = [p \in Workers |-> IF p = Caller THEN <<Frame(rkeys)>> ELSE <<>>]
  /\ rvisited = [p \in Workers |-> {}]
  /\ rout = <<>>
  /\ rlog = <<>>
  /\ rseen = {}

\* the key whose dependencies the innermost call is made for
Expanded(stack) ==
  IF Len(stack) > 1
  THEN <<stack[Len(stack) - 1].keys[stack[Len(stack) - 1].i]>>
  ELSE <<>>

\* one call of getFailedDependency: readState, then the loop up to the next
\* call or up to the outermost return
ResolveCall ==
  /\ rout = <<>>
  /\ LET r == AfterRead(rstack[Caller], rvisited[Caller], stateFile)
     IN /\ rstack' = [rstack EXCEPT ![Caller] = r.stack]
        /\ rvisited' = [rvisited EXCEPT ![Caller] = r.visited]
        /\ rout' = IF r.done THEN <<r.out>> ELSE <<>>
        /\ rlog' = rlog \o Expanded(r.stack)
  /\ UNCHANGED <<files, phase, pc, op, locals, status, timers, ncalls, wait, seenAt,
                 testInfo, cur, tpc, currentGatekeeperKey, rkeys, rseen>>

ResolverNext == ResolveCall

ResolverSpec == ResolverInit /\ [][ResolverNext]_vars

\* ------ SnapshotSpec: getFailedDependency(keys) while other processes write
\* what the state file holds when the call is made
SnapshotStates ==
  {[results |-> r, dependencies |-> d] :
     r \in {EmptyMap, Put(EmptyMap, "api", MkResult(TRUE, Undefined))},
     d \in {EmptyMap, Put(EmptyMap, "auth", <<"api">>)}}

SnapshotKeyLists == {<<"api">>, <<"auth">>, <<"auth", "api">>}

\* the processes that call the store while Caller resolves
Writers == Workers \ {Caller}

SnapshotInit ==
  /\ \E state \in SnapshotStates : stateFile = Stringify(state)
  /\ lockFile \in {{}, {StalePid}}
  /\ tmpFiles = {}
  /\ faultsLeft = 0
  /\ phase = "running"
  /\ ncalls = 0
  /\ InitProcs
  /\ InitWait
  /\ testInfo = [t \in TestIds |-> NewTestInfo]
  /\ cur = [p \in Workers |-> NoTest]
  /\ tpc = [p \in Workers |-> "idle"]
  /\ currentGatekeeperKey = [p \in Workers |-> NoKey]
  /\ rkeys \in SnapshotKeyLists
  /\ rstack = [p \in Workers |-> IF p = Caller THEN <<Frame(rkeys)>> ELSE <<>>]
  /\ rvisited = [p \in Workers |-> {}]
  /\ rout = <<>>
  /\ rlog = <<>>
  /\ rseen = {stateFile}

\* Caller's getFailedDependency runs one readState at a time; between two of
\* them the other processes go on with their setResult and registerGatekeeper
\* calls
SnapshotNext ==
  \/ ResolveCall
  \/ Tick
  \/ \E p \in Writers : StoreStep(p)
  \/ \E p \in Writers : CallSetResult(p)
  \/ \E p \in Writers : CallRegisterGatekeeper(p)
  \/ \E p \in Writers : CallReturns(p)

SnapshotSpec == SnapshotInit /\ [][SnapshotNext]_vars

\* --------------------- ReadSpec: the read-only queries, on whatever file is there
ReadFiles ==
  {MissingFile, CorruptFile} \cup
  {Stringify([results |-> r, dependencies |-> d]) :
     r \in MapsInto(ResolverResults),
     d \in {EmptyMap, [k \in {"auth"} |-> <<"api">>]}}

Queries ==
  {[name |-> n] : n \in {"readState", "getAllResults", "getSummary"}}
  \cup {[name |-> n, key |-> k] :
          n \in {"getResult", "getDependencies", "isRegistered"}, k \in Keys}
  \cup {[name |-> "getFailedDependency", keys |-> ks] : ks \in ResolverKeyLists}

\* getAllResults(): { ...state.results }
getAllResults(file) == readState(file).results

\* Object.values(record): the values, one for each own key
RECURSIVE ObjectValues(_)
ObjectValues(m) ==
  IF DOMAIN m = {} THEN <<>>
  ELSE LET k == CHOOSE x \in DOMAIN m : TRUE
       IN <<m[k]>> \o ObjectValues([x \in DOMAIN m \ {k} |-> m[x]])

\* (mutant) every registered key is counted, with or without a result
getSummary_Registered(file) ==
  LET state == readState(file)
      entries == ObjectValues(state.results)
      HasPassed(r) == r.passed
      HasFailed(r) == ~r.passed
  IN [total |-> Cardinality(DOMAIN state.results \cup DOMAIN state.dependencies),
      passed |-> Len(SelectSeq(entries, HasPassed)),
      failed |-> Len(SelectSeq(entries, HasFailed))]

\* getSummary(): entries.length and the lengths of two filters over
\* Object.values(getAllResults())
getSummary(file) ==
  LET entries == ObjectValues(getAllResults(file))
      HasPassed(r) == r.passed
      HasFailed(r) == ~r.passed
  IN [total |-> Len(entries),
      passed |-> Len(SelectSeq(entries, HasPassed)),
      failed |-> Len(SelectSeq(entries, HasFailed))]

\* getDependencies(key): state.dependencies[key] || []
getDependencies(file, key) ==
  LET state == readState(file)
  IN IF key \in DOMAIN state.dependencies THEN state.dependencies[key] ELSE <<>>

\* isRegistered(key): key in state.results || key in state.dependencies
isRegistered(file, key) ==
  LET state == readState(file)
  IN key \in DOMAIN state.results \/ key \in DOMAIN state.dependencies

\* getFailedDependency with its recursive calls, each reading the same file
RECURSIVE Resolve(_, _, _)
Resolve(stack, visited, file) ==
  LET r == AfterRead(stack, visited, file)
  IN IF r.done THEN r.out ELSE Resolve(r.stack, r.visited, file)

getFailedDependency(file, keys) == Resolve(<<Frame(keys)>>, {}, file)

\* what query q returns when the state file is file
Answer(q, file) ==
  CASE q.name = "readState" -> readState(file)
    [] q.name = "getAllResults" -> getAllResults(file)
    [] q.name = "getSummary" -> getSummary(file)
    [] q.name = "getResult" -> getResult(file, q.key)
    [] q.name = "getDependencies" -> getDependencies(file, q.key)
    [] q.name = "isRegistered" -> isRegistered(file, q.key)
    [] q.name = "getFailedDependency" -> getFailedDependency(file, q.keys)

ReadInit ==
  /\ stateFile \in ReadFiles
  /\ lockFile \in {{}, {StalePid}}
  /\ tmpFiles = {}
  /\ faultsLeft = 0
  /\ phase = "running"
  /\ ncalls = 0
  /\ InitProcs
  /\ InitWait
  /\ InitTests
  /\ InitProbe

\* a method that runs inside withLock throws when the lock file is there for
\* the whole of its timeout
TimesOut(q) == Locked(q) /\ ~CanCreateLock(lockFile)

\* a process calls a query: rkeys is the call, rout what it returned, status
\* how it ended
Query(q) ==
  /\ rkeys' = q
  /\ rout' = IF TimesOut(q) THEN <<>> ELSE <<Answer(q, stateFile)>>
  /\ status' = [status EXCEPT ![Caller] = IF TimesOut(q) THEN "LockTimeout" ELSE "ok"]
  /\ UNCHANGED <<files, phase, pc, op, locals, timers, ncalls, wait, seenAt,
                 tests, rlog, rseen>>

ReadNext == \E q \in Queries : Query(q)

ReadSpec == ReadInit /\ [][ReadNext]_vars

\* ------------- InitializeSpec: initialize, called again, on whatever file is there
CallInitialize ==
  /\ pc[MainPid] = "idle"
  /\ ncalls < MaxCalls
  /\ Enter(MainPid, OpInitialize)
  /\ ncalls' = ncalls + 1
  /\ UNCHANGED <<files, phase, above>>

InitializeReturns ==
  /\ pc[MainPid] = "returned"
  /\ pc' = [pc EXCEPT ![MainPid] = "idle"]
  /\ UNCHANGED <<files, phase, op, locals, status, timers, ncalls, above>>

InitializeInit ==
  /\ stateFile \in ReadFiles
  /\ lockFile \in {{}, {StalePid}}
  /\ tmpFiles = {}
  /\ faultsLeft = 0
  /\ phase = "setup"
  /\ ncalls = 0
  /\ InitProcs
  /\ InitWait
  /\ InitTests
  /\ InitProbe

InitializeNext ==
  \/ CallInitialize
  \/ WriteTemp(MainPid)
  \/ Rename(MainPid)
  \/ InitializeReturns

InitializeSpec == InitializeInit /\ [][InitializeNext]_vars

\* ------------------- RoundTripSpec: writeState(S), then readState(), for any S
RoundTripStates ==
  {[results |-> r, dependencies |-> d] :
     r \in MapsInto(ResolverResults),
     d \in {EmptyMap, [k \in {"auth"} |-> <<"api">>],
            [k \in {"auth", "db"} |-> IF k = "auth" THEN <<"db", "api">> ELSE <<"api">>]}}

OpWriteState == [name |-> "writeState"]

\* writeState(S) is called: rkeys is S
CallWriteState ==
  /\ pc[MainPid] = "idle"
  /\ ncalls < MaxCalls
  /\ ncalls' = ncalls + 1
  /\ \E S \in RoundTripStates :
       /\ rkeys' = S
       /\ snap' = [snap EXCEPT ![MainPid] = S]
  /\ rout' = <<>>
  /\ op' = [op EXCEPT ![MainPid] = OpWriteState]
  /\ status' = [status EXCEPT ![MainPid] = "running"]
  /\ attempt' = [attempt EXCEPT ![MainPid] = 0]
  /\ pc' = [pc EXCEPT ![MainPid] = "write"]
  /\ UNCHANGED <<files, phase, timers, wait, seenAt, tests, rlog, rseen>>

\* readState() is called once writeState has returned: rout is what it returns
ReadBack ==
  /\ pc[MainPid] = "returned"
  /\ status[MainPid] = "ok"
  /\ rout' = <<readState(stateFile)>>
  /\ pc' = [pc EXCEPT ![MainPid] = "idle"]
  /\ UNCHANGED <<files, phase, op, locals, status, timers, ncalls, wait, seenAt, tests,
                 rkeys, rlog, rseen>>

RoundTripInit ==
  /\ stateFile \in {MissingFile, CorruptFile, Stringify(LeftoverState)}
  /\ lockFile = {}
  /\ tmpFiles = {}
  /\ faultsLeft = 0
  /\ phase = "running"
  /\ ncalls = 0
  /\ InitProcs
  /\ InitWait
  /\ InitTests
  /\ InitProbe

RoundTripNext ==
  \/ CallWriteState
  \/ WriteTemp(MainPid)
  \/ Rename(MainPid)
  \/ ReadBack

RoundTripSpec == RoundTripInit /\ [][RoundTripNext]_vars

\* ---------- CleanupSpec: cleanup, called again, on whatever files are there
CallCleanup ==
  /\ pc[MainPid] = "idle"
  /\ ncalls < MaxCalls
  /\ ncalls' = ncalls + 1
  /\ phase' = "teardown"
  /\ pc' = [pc EXCEPT ![MainPid] = "cleanupState"]
  /\ UNCHANGED <<files, op, locals, status, timers, above>>

CleanupInit ==
  /\ stateFile \in ReadFiles
  /\ lockFile \in {{}, {StalePid}}
  /\ tmpFiles = {}
  /\ faultsLeft = MaxFaults
  /\ phase = "running"
  /\ ncalls = 0
  /\ InitProcs
  /\ InitWait
  /\ InitTests
  /\ InitProbe

CleanupNext ==
  \/ CallCleanup
  \/ CleanupState
  \/ CleanupLock

CleanupSpec == CleanupInit /\ [][CleanupNext]_vars

\* ------------------------------ TestSpec: the workers run the tests of the suite
TestNext ==
  \/ GlobalSetup
  \/ SetupDone
  \/ RunEnds
  \/ CleanupState
  \/ CleanupLock
  \/ Tick
  \/ \E p \in Pids : StoreStep(p)
  \/ \E p \in Workers : Poll(p)
  \/ \E p \in Workers, t \in TestIds : MarkAs(p, t)
  \/ \E p \in Workers, t \in TestIds : DependsOn(p, t)
  \/ \E p \in Workers : ResolverStep(p)
  \/ \E p \in Workers : Registered(p)
  \/ \E p \in Workers : BodyEnds(p)
  \/ \E p \in Workers : WaitOver(p)
  \/ \E p \in Workers : Teardown(p)
  \/ \E p \in Workers : Recorded(p)
  \/ \E p \in Workers : WorkerReplaced(p)

TestSpec == Init /\ [][TestNext]_vars

\* timers fire and the event loop runs what is due; a store call in progress
\* runs on (it is synchronous code)
WaitFairness ==
  /\ WF_vars(Tick)
  /\ \A p \in Workers : WF_vars(Poll(p)) /\ WF_vars(WaitReturns(p))

FairWaitSpec == WaitSpec /\ WaitFairness

\* ================================================================== claims

\* process p is between acquireLock's success and releaseLock
InCriticalSection(p) ==
  Locked(op[p]) /\ pc[p] \in {"read", "write", "rename", "wfail", "release"}

\* C1: across every interleaving of workers calling registerGatekeeper and
\* setResult, at most one process is inside a lock-guarded critical section
\* (read snapshot, change it, write snapshot) at any time.
C1_MutualExclusion ==
  \A p, q \in Pids : InCriticalSection(p) /\ InCriticalSection(q) => p = q

\* one worker is inside its critical section while another, having found the
\* lock file, is backing off
C1_Witness ==
  \E p, q \in Workers : InCriticalSection(p) /\ pc[q] = "backoff"

\* every worker has issued exactly one call, a setResult that returned, and no
\* two of them wrote the same key
DistinctSetResults ==
  /\ phase = "running"
  /\ WorkersIdle
  /\ ncalls = NumWorkers
  /\ \A p \in Workers : op[p].name = "setResult" /\ status[p] = "ok"
  /\ \A p, q \in Workers : op[p].key = op[q].key => p = q

\* C2: when N processes call setResult concurrently for N distinct keys, then
\* once all calls have returned the results map holds exactly those N keys,
\* each with the value its caller wrote.
C2_NoLostUpdates ==
  DistinctSetResults =>
    LET results == readState(stateFile).results
    IN /\ DOMAIN results = {op[p].key : p \in Workers}
       /\ \A p \in Workers : results[op[p].key] = op[p].result
       /\ Cardinality(DOMAIN results) = NumWorkers

\* the N calls have returned and the file holds N results
C2_Witness ==
  /\ DistinctSetResults
  /\ Cardinality(DOMAIN readState(stateFile).results) = NumWorkers


\* ------------------------------------------------------ the lock: C15 ..
\* process p takes a step of acquireLock that does not get it the lock
FailsToAcquire(p) ==
  /\ InAcquire(p)
  /\ pc'[p] # pc[p]
  /\ pc'[p] \in {"acquire", "backoff", "returned"}

\* C15: a registerGatekeeper or setResult call that cannot create the lock file
\* within the acquisition timeout ends with the LockTimeout error; no step of
\* that call changes the state file, a temporary file or the lock file, so
\* the sentinel another process holds stays in place.
C15_LockTimeoutFatal ==
  /\ [][\A p \in Workers :
          FailsToAcquire(p) =>
            /\ stateFile' = stateFile
            /\ tmpFiles' = tmpFiles
            /\ lockFile' = lockFile
            /\ pc'[p] = "returned" => status'[p] = "LockTimeout"]_vars
  /\ [](\A p \in Workers :
          status[p] = "LockTimeout" => pc[p] \in {"returned", "idle"} /\ p \notin lockFile)

\* a call has ended with LockTimeout while another process is inside its
\* critical section, its sentinel in place
C15_Witness ==
  \E p, q \in Workers :
    /\ status[p] = "LockTimeout"
    /\ pc[p] = "returned"
    /\ InCriticalSection(q)
    /\ lockFile = {q}

\* C16 (as the spec states it): whenever no process is inside a critical
\* section the lock file is absent.
C16_GuaranteedRelease ==
  (\A p \in Pids : ~InCriticalSection(p)) => lockFile = {}

\* the store has refused no write, rename or unlink so far
NoFaultYet == faultsLeft = MaxFaults

\* C16: every registerGatekeeper or setResult call that acquired the lock
\* leaves its critical section through releaseLock only, after a write that
\* succeeded as after one that exhausted its retries; releaseLock removes the
\* lock file unless the unlink itself is refused, which it ignores.  So when no
\* process is inside a critical section, a lock file that exists was left by
\* an earlier run or by a refused unlink.
C16_ReleaseOnEveryExit ==
  /\ [][\A p \in Workers :
          InCriticalSection(p) /\ pc'[p] # pc[p] =>
            \/ InCriticalSection(p)'
            \/ /\ pc[p] = "release"
               /\ pc'[p] = "returned"
               /\ lockFile' = {} \/ faultsLeft' < faultsLeft]_vars
  /\ []((\A p \in Pids : ~InCriticalSection(p)) =>
          \/ lockFile = {}
          \/ lockFile = {StalePid} /\ phase \in {"setup", "running", "aborted", "teardown"}
          \/ ~NoFaultYet)

\* a call whose write failed three times has thrown, and the lock file is gone
C16_Witness ==
  \E p \in Workers :
    /\ status[p] = "WriteExhausted"
    /\ pc[p] = "returned"
    /\ lockFile = {}

\* process p's renameSync replaces the state file in this step
Replaces(p) == pc[p] = "rename" /\ pc'[p] \notin {"rename", "wfail"}

\* C17: between globalSetup and the reporter's onEnd, that is while workers
\* may be running, every step that replaces or removes the state file is the
\* renameSync of a worker inside its critical section, whose pid is in the
\* lock file before and after the step; initialize and cleanup, which take no
\* lock, act only outside that interval.
C17_WritesUnderLock ==
  [][phase = "running" /\ (stateFile' # stateFile \/ \E p \in Pids : Replaces(p)) =>
       \E p \in Workers :
         /\ Replaces(p)
         /\ InCriticalSection(p)
         /\ lockFile = {p}
         /\ lockFile' = {p}]_vars

\* a worker has replaced the state file and still holds the lock
C17_Witness ==
  \E p \in Workers :
    /\ phase = "running"
    /\ pc[p] = "release"
    /\ status[p] = "ok"
    /\ lockFile = {p}
    /\ stateFile = Stringify(Mutate(readState(stateFile), op[p]))
    /\ stateFile # Stringify(EmptyState)

\* the keys a read of the file finds in results and in dependencies
ResultKeys(file) == DOMAIN readState(file).results
DependencyKeys(file) == DOMAIN readState(file).dependencies

\* the setResult call of process p has committed its write
Committed(p) ==
  /\ op[p].name = "setResult"
  /\ status[p] = "ok"
  /\ pc[p] \in {"release", "returned", "idle"}

\* C19: between initialize and cleanup no step removes a key from results or
\* from dependencies, whatever registerGatekeeper and setResult calls
\* interleave, so a read finds a result for every key whose setResult call
\* has committed.
C19_MonotonicGrowth ==
  /\ [][phase = "running" =>
          /\ ResultKeys(stateFile) \subseteq ResultKeys(stateFile')
          /\ DependencyKeys(stateFile) \subseteq DependencyKeys(stateFile')]_vars
  /\ [](\A p \in Workers :
          phase = "running" /\ Committed(p) =>
            getResult(stateFile, op[p].key) # Absent)

\* two calls have written different keys, and a read finds both
C19_Witness ==
  /\ phase = "running"
  /\ \E p, q \in Workers :
       /\ Committed(p)
       /\ Committed(q)
       /\ op[p].key # op[q].key
       /\ pc[q] = "release"
  /\ ResultKeys(stateFile) = {"api", "auth"}

\* ------------------------------------------------------------ reads: C20 ..
\* there is no state file, or one that JSON.parse rejects
Unreadable(file) == file.kind \in {"missing", "corrupt"}

\* what each query returns on { results: {}, dependencies: {} }
OnEmptySnapshot(name) ==
  CASE name = "readState" -> [results |-> EmptyMap, dependencies |-> EmptyMap]
    [] name = "getAllResults" -> EmptyMap
    [] name = "getSummary" -> [total |-> 0, passed |-> 0, failed |-> 0]
    [] name = "getResult" -> Absent
    [] name = "getDependencies" -> <<>>
    [] name = "isRegistered" -> FALSE
    [] name = "getFailedDependency" -> Null

\* C20: when the state file is missing or does not parse, readState returns
\* { results: {}, dependencies: {} }, and every read-only query returns what it
\* returns on that snapshot: no result, no dependencies, a summary of zeros,
\* no failed dependency.
C20_ReadNeverFails ==
  rout # <<>> /\ Unreadable(stateFile) => rout[1] = OnEmptySnapshot(rkeys.name)

\* getSummary has been called with a corrupt state file and returned a value
C20_Witness ==
  /\ stateFile = CorruptFile
  /\ rout # <<>>
  /\ rkeys.name = "getSummary"
  /\ rout[1].total = 0

\* the results a poller of process p found in the file
Found(p) == {wresults[p][j][2][1] : j \in {h \in 1..Len(wresults[p]) : wresults[p][h][2] # Absent}}

\* C18: during the run the state file always parses; every step that changes
\* it is one renameSync, after which a read returns exactly the StateFile the
\* writer held, error texts included; and every result a waitForResult poll
\* returned, whatever writes were going on, is a result a setResult call was
\* given.
C18_CommittedSnapshots ==
  /\ [][phase = "running" /\ stateFile' # stateFile =>
          \E p \in Workers : Replaces(p) /\ readState(stateFile') = snap[p]]_vars
  /\ [](phase = "running" => stateFile.kind = "json")
  /\ [](\A p \in Workers : Found(p) \subseteq CallResults)

\* a writer has written its temporary file and not yet renamed it; a poller
\* that has read the state file found nothing for the writer's key, which a
\* read still does not find
C18_Witness ==
  \E p, q \in Workers :
    /\ pc[q] = "rename"
    /\ q \in tmpFiles
    /\ pc[p] = "waiting"
    /\ \E i \in 1..Len(pollers[p]) :
         pollers[p][i].st = "sleep" /\ wkeys[p][i] = op[q].key
    /\ getResult(stateFile, op[q].key) = Absent

\* ------------------------------------------------------ writeState: C21 ..
\* process p leaves writeState in this step, by return or by throw
LeavesWrite(p) ==
  /\ pc[p] \in {"rename", "wfail"}
  /\ pc'[p] \notin {"write", "rename", "wfail"}

\* C21: writeState makes at most maxRetries attempts; it returns after the
\* first rename that succeeds; when every attempt has failed it throws, the
\* state file holds what it held before and the temporary file is gone.
C21_WriteRetry ==
  /\ [][\A p \in Pids :
          LeavesWrite(p) =>
            \/ pc[p] = "rename" /\ status'[p] = "ok"
            \/ /\ pc[p] = "wfail"
               /\ attempt[p] = maxRetries - 1
               /\ status'[p] = "WriteExhausted"
               /\ stateFile' = stateFile
               /\ p \notin tmpFiles']_vars
  /\ [](\A p \in Pids : attempt[p] < maxRetries)

\* C22: readState, getResult (which is all that waitForResult calls),
\* getDependencies, isRegistered, getFailedDependency, getAllResults and
\* getSummary leave the lock file as it is and return their value whether or
\* not the lock file exists; none of them ends with LockTimeout.
C22_LockFreeReads ==
  /\ [][lockFile' = lockFile]_vars
  /\ [](status[Caller] \in {"none", "ok"})
  /\ [](status[Caller] = "ok" => rout # <<>>)

\* getFailedDependency has returned while the lock file of another process
\* is in place
C22_Witness ==
  /\ lockFile = {StalePid}
  /\ status[Caller] = "ok"
  /\ rout # <<>>
  /\ rkeys.name = "getFailedDependency"

\* process p is inside registerGatekeeper or setResult
InCall(p) == pc[p] \notin {"idle", "returned"}

\* C23: a registerGatekeeper or setResult call of a process that keeps
\* running ends, with its write committed, with LockTimeout or with
\* WriteExhausted, whatever the other processes do and whether or not the
\* lock file is ever removed.
C23_BoundedMutation ==
  /\ InCall(Caller) ~> pc[Caller] = "returned"
  /\ [](pc[Caller] = "returned" => status[Caller] \in {"ok", "LockTimeout", "WriteExhausted"})

\* a call has ended with LockTimeout on a lock file that no process of the run
\* holds or will remove
C23_Witness ==
  /\ lockFile = {StalePid}
  /\ pc[Caller] = "returned"
  /\ status[Caller] = "LockTimeout"

\* ------------------------------------------------------ initialize: C24 ..
\* the first initialize call has returned
Initialized == ncalls >= 1 /\ ~(ncalls = 1 /\ pc[MainPid] \in {"write", "rename"})

\* C24: once initialize has returned, readState gives { results: {},
\* dependencies: {} } whatever the state file held before (nothing, text that
\* does not parse, results and dependencies of an earlier run), and it gives
\* the same during and after a second initialize call.
C24_IdempotentInitialize ==
  Initialized =>
    /\ readState(stateFile) = [results |-> EmptyMap, dependencies |-> EmptyMap]
    /\ pc[MainPid] \in {"returned", "idle"} => status[MainPid] = "ok"

\* the second initialize call has returned
C24_Witness ==
  /\ ncalls = 2
  /\ pc[MainPid] = "returned"
  /\ readState(stateFile) = EmptyState

\* C25: for every StateFile S, readState() after a writeState(S) that returned,
\* with no write in between, returns S: the same keys, the same passed and
\* error of every result (an error that is undefined included), the same
\* dependency lists in the same order.
C25_RoundTrip ==
  rout # <<>> => rout[1] = rkeys

\* a snapshot with a failed result without error text, a passed result and two
\* dependency lists has been written and read back
C25_Witness ==
  /\ rout # <<>>
  /\ "api" \in DOMAIN rout[1].results
  /\ rout[1].results["api"] = MkResult(FALSE, Undefined)
  /\ "db" \in DOMAIN rout[1].results
  /\ rout[1].results["db"].passed
  /\ DOMAIN rout[1].dependencies = {"auth", "db"}

\* --------------------------------------------------------- cleanup: C26 ..
\* a cleanup call has returned
CleanedUp == ncalls >= 1 /\ pc[MainPid] = "idle"

\* C26: cleanup always runs to its end and raises no error, whether a file is
\* absent or its unlink is refused; when no unlink was refused, the state file
\* and the lock file are gone after it and readState returns the empty
\* StateFile; a cleanup that finds neither file changes nothing.
C26_CleanupBestEffort ==
  /\ [](CleanedUp /\ NoFaultYet =>
          /\ stateFile = MissingFile
          /\ lockFile = {}
          /\ readState(stateFile) = [results |-> EmptyMap, dependencies |-> EmptyMap])
  /\ [](status[MainPid] = "none")
  /\ [][/\ pc[MainPid] = "cleanupState" => pc'[MainPid] = "cleanupLock"
        /\ pc[MainPid] = "cleanupLock" => pc'[MainPid] = "idle" /\ phase' = "done"
        /\ stateFile = MissingFile /\ lockFile = {} => UNCHANGED files]_vars

\* both unlinks were refused, cleanup has returned all the same, and the
\* files are still there
C26_Witness ==
  /\ CleanedUp
  /\ faultsLeft = MaxFaults - 2
  /\ ncalls = 1
  /\ stateFile.kind = "json"
  /\ lockFile = {StalePid}

\* ------------------------------------------------------- setResult: C27 ..
\* C27: the write of a setResult(key, ...) call puts the call's result under
\* key, whether or not key had a result, adds no other entry and leaves the
\* results of the other keys as they were, and the call ends without error;
\* so the result on file for a key is that of the call that wrote last.
C27_LastWriteWins ==
  [][\A p \in Workers :
       Replaces(p) /\ op[p].name = "setResult" =>
         LET old == readState(stateFile).results
             new == readState(stateFile').results
         IN /\ DOMAIN new = DOMAIN old \cup {op[p].key}
            /\ new[op[p].key] = op[p].result
            /\ \A x \in DOMAIN old \ {op[p].key} : new[x] = old[x]
            /\ status'[p] = "ok"]_vars

\* two calls have written different results for one key; the file holds one
\* entry, the result of the call that has just written
C27_Witness ==
  \E p, q \in Workers :
    /\ Committed(p)
    /\ Committed(q)
    /\ pc[p] \in {"returned", "idle"}
    /\ pc[q] = "release"
    /\ op[p].key = op[q].key
    /\ op[p].result # op[q].result
    /\ ResultKeys(stateFile) = {op[q].key}
    /\ getResult(stateFile, op[q].key) = Some(op[q].result)

\* C28: whatever the state file holds, getSummary returns total = the number
\* of keys in results, passed = the number of them whose result has passed =
\* true, failed = the number whose result has passed = false, and total =
\* passed + failed; a key that has dependencies and no result is not counted.
C28_SummaryConsistency ==
  rout # <<>> /\ rkeys.name = "getSummary" =>
    LET results == readState(stateFile).results
    IN /\ rout[1].total = Cardinality(DOMAIN results)
       /\ rout[1].passed = Cardinality({k \in DOMAIN results : results[k].passed = TRUE})
       /\ rout[1].failed = Cardinality({k \in DOMAIN results : results[k].passed = FALSE})
       /\ rout[1].total = rout[1].passed + rout[1].failed

\* auth has dependencies and no result; getSummary has counted the passed
\* result of api and the failed result of db, and not auth
C28_Witness ==
  /\ rout # <<>>
  /\ rkeys.name = "getSummary"
  /\ DependencyKeys(stateFile) = {"auth"}
  /\ ResultKeys(stateFile) = {"api", "db"}
  /\ rout[1] = [total |-> 2, passed |-> 1, failed |-> 1]

\* ---------------------------------------------------- the resolver: C11 ..
\* the keys reached from keys along the dependency edges of state, keys included
RECURSIVE Closure(_, _, _)
Closure(reached, edges, n) ==
  IF n = 0 THEN reached
  ELSE Closure(reached \cup {d \in Keys : \E k \in reached \cap DOMAIN edges :
                                           d \in Range(edges[k])},
               edges, n - 1)

FailedKeys(state) ==
  {k \in DOMAIN state.results : ~state.results[k].passed}

\* C11: on a fixed store state getFailedDependency(keys) returns a failure if
\* and only if a key reached from keys along the dependency edges (keys
\* included) has a result with passed = false; the key returned is such a
\* key and the error returned is that result's error.
C11_ResolverSoundComplete ==
  rout # <<>> =>
    LET out == rout[1]
        state == readState(stateFile)
        failed == FailedKeys(state) \cap
                  Closure(Range(rkeys), state.dependencies, Cardinality(Keys))
    IN /\ out # Null <=> failed # {}
       /\ out # Null =>
            /\ out[1].key \in failed
            /\ out[1].error = state.results[out[1].key].error

\* the call has returned db's failure, reached through auth, api having passed
C11_Witness ==
  /\ rout # <<>>
  /\ rout[1] # Null
  /\ rout[1][1].key = "db"
  /\ rout[1][1].error = "boom"
  /\ "db" \notin Range(rkeys)
  /\ "api" \in DOMAIN readState(stateFile).results

\* C12: the chain of a failure returned on a fixed store state is a path: it
\* is not empty, starts at one of keys, goes from each element to one of that
\* element's declared dependencies, and ends at the failed key returned.
C12_ChainIsPath ==
  rout # <<>> /\ rout[1] # Null =>
    LET chain == rout[1][1].chain
        edges == readState(stateFile).dependencies
    IN /\ Len(chain) >= 1
       /\ chain[1] \in Range(rkeys)
       /\ \A j \in 1..(Len(chain) - 1) :
            chain[j] \in DOMAIN edges /\ chain[j + 1] \in Range(edges[chain[j]])
       /\ chain[Len(chain)] = rout[1][1].key

\* a failure two edges away from the key asked for
C12_Witness ==
  /\ rout # <<>>
  /\ rout[1] # Null
  /\ Len(rout[1][1].chain) = Cardinality(Keys)

\* C13: getFailedDependency ends on every dependency map, cycles and self-loops
\* included, and goes into the dependencies of a key at most once per
\* top-level call; a cycle without results gives 'no failure found'.
\* (Each readState belongs to one call; every call but the first goes into the
\* dependencies of one more key, so there are no more calls than keys plus
\* one; a call that has not returned has a frame to run.)
C13_CycleSafety ==
  /\ \A i, j \in 1..Len(rlog) : rlog[i] = rlog[j] => i = j
  /\ Len(rstack[Caller]) <= Len(rlog) + 1
  /\ rout = <<>> <=> rstack[Caller] # <<>>
  /\ rout # <<>> /\ FailedKeys(readState(stateFile)) = {} => rout[1] = Null

\* the call has returned from a cycle api -> auth -> api with no result on file
C13_Witness ==
  /\ rout = <<Null>>
  /\ rkeys = <<"api">>
  /\ readState(stateFile).results = EmptyMap
  /\ "api" \in DOMAIN readState(stateFile).dependencies
  /\ "auth" \in DOMAIN readState(stateFile).dependencies
  /\ readState(stateFile).dependencies["api"] = <<"auth">>
  /\ readState(stateFile).dependencies["auth"] = <<"db", "api">>
  /\ rlog = <<"api", "auth">>

\* the keys in the order a depth-first walk first meets them: todo is what is
\* still to be looked at, a key's dependencies going in front of the rest
RECURSIVE PreOrder(_, _, _)
PreOrder(todo, seen, edges) ==
  IF todo = <<>> THEN <<>>
  ELSE IF Head(todo) \in seen THEN PreOrder(Tail(todo), seen, edges)
  ELSE <<Head(todo)>> \o
       PreOrder((IF Head(todo) \in DOMAIN edges THEN edges[Head(todo)] ELSE <<>>)
                  \o Tail(todo),
                seen \cup {Head(todo)}, edges)

\* C14: for a fixed store state and keys list the result is fixed by them: it
\* is the first key with a failed result in the depth-first pre-order walk that
\* takes keys in the order supplied and each key's dependencies in the order
\* declared, and 'no failure found' when that walk meets no failed key.
C14_ResolverOrdering ==
  rout # <<>> =>
    LET state == readState(stateFile)
        order == PreOrder(rkeys, {}, state.dependencies)
        hits == {j \in 1..Len(order) : order[j] \in FailedKeys(state)}
    IN IF hits = {} THEN rout[1] = Null
       ELSE /\ rout[1] # Null
            /\ rout[1][1].key = order[CHOOSE j \in hits : \A h \in hits : j <= h]

\* api and db have both failed; db is met first, through auth's dependencies
C14_Witness ==
  /\ rout # <<>>
  /\ rout[1] # Null
  /\ rkeys = <<"auth", "api", "db">>
  /\ rout[1][1].key = "db"
  /\ {"api", "db"} \subseteq FailedKeys(readState(stateFile))

\* the dependencies declared for key on file
Declared(state, key) ==
  IF key \in DOMAIN state.dependencies THEN state.dependencies[key] ELSE <<>>

\* key has no failed result and no declared dependencies: the resolver's loop
\* passes over it
Plain(state, key) ==
  /\ key \notin FailedKeys(state)
  /\ Declared(state, key) = <<>>

\* key has declared dependencies and its own result is absent or passed
LookedThrough(state, key) ==
  /\ key \notin FailedKeys(state)
  /\ Declared(state, key) # <<>>

\* C32: on a fixed store state, when the loop of getFailedDependency(keys)
\* reaches a key whose own result is absent or has passed = true and which has
\* declared dependencies (the keys before it neither failed nor have
\* dependencies), the resolver goes into the dependencies of that key, whether
\* or not the key has a result; if the first of them that is not passed over
\* is a key D with passed = false, the call returns
\* {key: D, error: D's error, chain: [key, D]}.
C32_LooksThroughPassed ==
  LET state == readState(stateFile)
  IN rout # <<>> =>
       \A i \in 1..Len(rkeys) :
         LET key == rkeys[i]
             deps == Declared(state, key)
         IN (/\ LookedThrough(state, key)
             /\ \A h \in 1..(i - 1) : Plain(state, rkeys[h]))
            => /\ key \in Range(rlog)
               /\ \A j \in 1..Len(deps) :
                    (/\ deps[j] \in FailedKeys(state)
                     /\ \A h \in 1..(j - 1) : deps[h] = key \/ Plain(state, deps[h]))
                    => rout[1] = Failure(deps[j], state.results[deps[j]].error,
                                         <<key, deps[j]>>)

\* getFailedDependency(['api']) where api has passed and declares the failed
\* db as its dependency: it returns db with the chain api, db
C32_Witness ==
  /\ rout # <<>>
  /\ rkeys = <<"api">>
  /\ "api" \in DOMAIN readState(stateFile).results
  /\ readState(stateFile).results["api"].passed
  /\ Declared(readState(stateFile), "api") = <<"db">>
  /\ "db" \in FailedKeys(readState(stateFile))
  /\ rout[1] = Failure("db", "boom", <<"api", "db">>)

\* C33 (as the spec states it): what a getFailedDependency(keys) call
\* returns, while other processes call setResult and registerGatekeeper, is
\* what the resolver returns on one of the contents the state file has had
\* between the start of the call and its return.
C33_OneSnapshot ==
  rout # <<>> => \E file \in rseen : rout[1] = getFailedDependency(file, rkeys)

\* dependsOn(keys) of worker p returns without skipping: the body begins
Proceeds(p) == tpc[p] = "dependsOn_resolve" /\ tpc'[p] = "body"

\* what the outermost getFailedDependency call of worker p has read, or reads
\* in this step
ResolverRead(p) ==
  IF Len(rstack[p]) = 1 THEN readState(stateFile) ELSE rstack[p][1].state

\* C34: when dependsOn(keys) with a non-empty keys returns without skipping,
\* waitForResults has returned a result for every key in keys, and in the
\* StateFile that getFailedDependency(keys) read no key in keys has a result
\* with passed = false.
C34_ProceedsOnPasses ==
  [][\A p \in Workers :
       Proceeds(p) =>
         LET keys == Suite[cur[p]].keys
         IN /\ Len(keys) > 0
            /\ \A j \in 1..Len(keys) :
                 /\ \E h \in 1..Len(wresults[p]) :
                      /\ wresults[p][h][1] = keys[j]
                      /\ wresults[p][h][2] # Absent
                 /\ keys[j] \notin FailedKeys(ResolverRead(p))]_vars

\* the body of the test that calls dependsOn('auth', 'api') runs: both keys
\* have a passed result on file
C34_Witness ==
  \E p \in Workers :
    /\ tpc[p] = "body"
    /\ Suite[cur[p]].kind = "dependsOn"
    /\ Suite[cur[p]].keys = <<"auth", "api">>
    /\ \A key \in {"auth", "api"} :
         /\ key \in ResultKeys(stateFile)
         /\ readState(stateFile).results[key].passed

\* the lock file is there and no live process holds it: it was left by an
\* earlier run or by a process that was killed inside its critical section
Stale == lockFile # {} /\ \A q \in lockFile : q = StalePid \/ pc[q] = "stopped"

\* a registerGatekeeper or setResult call of p ends in this step
CallEnds(p) == Locked(op[p]) /\ pc[p] # "returned" /\ pc'[p] = "returned"

\* a waitForResult call of p finds its key in this step
Finds(p, i) ==
  /\ i \in 1..Len(pollers[p])
  /\ Len(pollers'[p]) = Len(pollers[p])
  /\ pollers[p][i].st # "done"
  /\ pollers'[p][i].st = "done"
  /\ pollers'[p][i].res # Absent

\* C35: a lock file without a live holder stays until cleanup unlinks it:
\* no step of acquireLock and no step of initialize removes or replaces it;
\* while it is there and the run lasts the state file does not change and
\* every registerGatekeeper and setResult call that ends, ends with
\* LockTimeout; initialize still ends well, and a waitForResult call that
\* finds a result returns the one the state file holds for its key.
C35_NoStaleLockRecovery ==
  /\ [][Stale => \/ lockFile' = lockFile
                 \/ pc[MainPid] = "cleanupLock" /\ lockFile' = {}]_vars
  /\ [][Stale /\ phase = "running" =>
          /\ stateFile' = stateFile
          /\ \A p \in Workers : CallEnds(p) => status'[p] = "LockTimeout"]_vars
  /\ [][Stale /\ phase = "setup" /\ pc[MainPid] # "returned"
             /\ pc'[MainPid] = "returned" =>
          /\ status'[MainPid] = "ok"
          /\ readState(stateFile') = EmptyState]_vars
  /\ [][\A p \in Workers : \A i \in 1..Len(pollers[p]) :
          Stale /\ Finds(p, i) =>
            pollers'[p][i].res = getResult(stateFile, wkeys[p][i])]_vars

\* a worker was killed inside setResult after its rename: its lock file is
\* still there, another worker's call has ended with LockTimeout, and
\* getResult, which takes no lock, returns the result the killed worker wrote
C35_Witness ==
  \E p, q \in Workers :
    /\ Stale
    /\ pc[q] = "stopped"
    /\ lockFile = {q}
    /\ op[q].name = "setResult"
    /\ pc[p] = "returned"
    /\ Locked(op[p])
    /\ status[p] = "LockTimeout"
    /\ getResult(stateFile, op[q].key) = Some(op[q].result)

\* ------------------------------------------------------ the tests: C3 .. C7
\* the store holds a failed result for key
FailedOnFile(key) ==
  /\ phase = "running"
  /\ key \in DOMAIN readState(stateFile).results
  /\ ~readState(stateFile).results[key].passed

\* the tests whose first statement is dependsOn('auth')
DependOnAuth == {t \in TestIds : Suite[t].kind = "dependsOn" /\ Suite[t].keys = <<"auth">>}

\* the gatekeeper tests that call markAs with a dependency list
WithDependencies == {t \in TestIds : Suite[t].kind = "markAs" /\ Len(Suite[t].keys) > 0}

\* C29: while the run lasts, a gatekeeper that called markAs with a non-empty
\* dependency list and whose body has started, or whose key has a result on
\* file, has its dependency list on file under its key.
C29_RegistrationFirst ==
  \A t \in WithDependencies :
    phase = "running" /\ (testInfo[t].ran \/ Suite[t].key \in ResultKeys(stateFile)) =>
      getDependencies(stateFile, Suite[t].key) = Suite[t].keys

\* the body of such a gatekeeper is running: its edges are on file, its
\* result is not yet
C29_Witness ==
  \E p \in Workers :
    /\ cur[p] \in WithDependencies
    /\ tpc[p] = "body"
    /\ testInfo[cur[p]].ran
    /\ Suite[cur[p]].key \notin ResultKeys(stateFile)
    /\ getDependencies(stateFile, Suite[cur[p]].key) = Suite[cur[p]].keys

\* C30 (as the spec states it): in each worker process currentGatekeeperKey
\* is either null or the key the running test gave to markAs, and it is null
\* once the teardown of that test has ended, also when setResult threw.
C30_KeyOwnership ==
  \A p \in Workers :
    /\ currentGatekeeperKey[p] # NoKey =>
         /\ cur[p] # NoTest
         /\ Suite[cur[p]].kind = "markAs"
         /\ currentGatekeeperKey[p] = Suite[cur[p]].key
    /\ tpc[p] \in {"idle", "exiting"} => currentGatekeeperKey[p] = NoKey

\* the teardown of test t has ended
Completed(t) == Ended(t) /\ \A p \in Workers : cur[p] # t

\* test t called markAs and markAs returned
CalledMarkAs(t) == Suite[t].kind = "markAs" /\ testInfo[t].ran

\* how many times test t called setResult
SetResults(t) ==
  LET IsSetResult(c) == c = "setResult"
  IN Len(SelectSeq(testInfo[t].calls, IsSetResult))

\* what a store call throws
StoreErrors == {"LockTimeout", "WriteExhausted"}

\* the result the fixture gives to setResult for a test that ended as info
Outcome(info) == MkResult(info.status = "passed", info.error)

C3_TransitiveSkip ==
  \A t \in DependOnAuth : FailedOnFile("api") => ~testInfo[t].ran

\* C4: when 'api' has recorded a failed result and markAs('auth', ['api']) has
\* therefore been aborted, a test that then calls dependsOn('auth') is skipped
\* with a failure report: failed key 'api', chain ['auth', 'api'].
C4_LinearChain ==
  \A t \in DependOnAuth :
    Ended(t) /\ "auth" \in testInfo[t].after =>
      /\ testInfo[t].status = "skipped"
      /\ testInfo[t].message.text = "failed"
      /\ testInfo[t].message.key = "api"
      /\ testInfo[t].message.chain = <<"auth", "api">>

\* markAs(key, deps) was called with deps and the resolver returned a failure
GateFound(t) ==
  /\ Suite[t].kind = "markAs"
  /\ Len(Suite[t].keys) > 0
  /\ testInfo[t].found # Null

\* C5: when markAs(key, deps) is called with non-empty deps and the resolver
\* finds a failure, the test is skipped before its body runs and it makes no
\* store call: no dependency edges and no result for key are written, and
\* currentGatekeeperKey is not set to key.
C5_GatedGatekeeper ==
  \A t \in TestIds :
    GateFound(t) =>
      /\ testInfo[t].status = "skipped"
      /\ ~testInfo[t].ran
      /\ testInfo[t].calls = <<>>
      /\ \A p \in Workers : cur[p] = t =>
           /\ currentGatekeeperKey[p] # Suite[t].key
           /\ pc[p] = "idle"
      /\ phase = "running" =>
           /\ Suite[t].key \notin DOMAIN readState(stateFile).dependencies
           /\ Suite[t].key \notin DOMAIN readState(stateFile).results

C5_Witness ==
  \E t \in TestIds : GateFound(t) /\ Ended(t) /\ FailedOnFile("api")

\* dependsOn has returned or skipped, and the test function is over
AfterDependsOn(p) ==
  /\ tpc[p] = "teardown"
  /\ Suite[cur[p]].kind = "dependsOn"

AbsentKeys(m) == {m[j][1] : j \in {h \in 1..Len(m) : m[h][2] = Absent}}

\* C6: when every key had a result at the end of the wait and the resolver
\* found a failure, the test is skipped, not failed; the message names the
\* failed key the resolver returned (a key with a failed result, reached from
\* keys), carries that result's error when it has one, and carries the chain
\* exactly when the chain has more than one element.
C6_FailurePath ==
  \A p \in Workers :
    AfterDependsOn(p) /\ AbsentKeys(wresults[p]) = {} /\ testInfo[cur[p]].found # Null =>
      LET info == testInfo[cur[p]]
          failed == info.found[1]
          recorded == readState(stateFile).results[failed.key]
      IN /\ info.status = "skipped"
         /\ ~info.ran
         /\ info.message.text = "failed"
         /\ info.message.key = failed.key
         /\ ~recorded.passed
         /\ failed.chain[1] \in Range(Suite[cur[p]].keys)
         /\ failed.chain[Len(failed.chain)] = failed.key
         /\ info.message.error = (IF recorded.error = Undefined THEN "" ELSE recorded.error)
         /\ info.message.chain = (IF Len(failed.chain) > 1 THEN failed.chain ELSE <<>>)

C6_Witness ==
  \E p \in Workers :
    /\ AfterDependsOn(p)
    /\ AbsentKeys(wresults[p]) = {}
    /\ testInfo[cur[p]].found # Null
    /\ testInfo[cur[p]].message.chain = <<"auth", "api">>
    /\ testInfo[cur[p]].message.error = "boom"

\* C7: when a key is absent from the Map after the wait, the test is skipped
\* with the non-completion message for an absent key and the resolver is not
\* called, also when another key of the call has a failed result.
C7_NonCompletionPath ==
  \A p \in Workers :
    AfterDependsOn(p) /\ AbsentKeys(wresults[p]) # {} =>
      LET info == testInfo[cur[p]]
      IN /\ info.status = "skipped"
         /\ ~info.ran
         /\ info.message.text = "did not complete"
         /\ info.message.key \in AbsentKeys(wresults[p])
         /\ ~info.asked
         /\ info.found = Null

C7_Witness ==
  \E p \in Workers :
    /\ AfterDependsOn(p)
    /\ testInfo[cur[p]].message.text = "did not complete"
    /\ \E j \in 1..Len(wresults[p]) :
         wresults[p][j][2] # Absent /\ ~wresults[p][j][2][1].passed

\* ------------------------------------------------------- waitFor: C8 .. C10
\* every waitForResult call of p's waitForResults has returned; the Map is complete
AllDone(p) == pc[p] = "waiting" /\ ~Waiting(p)

NeverRecorded(p, i) ==
  /\ pc[p] = "waiting"
  /\ pollers[p][i].st = "done"
  /\ getResult(stateFile, wkeys[p][i]) = Absent

\* C8: a waitFor for a key whose result is never recorded ends, and not before
\* the timeout has elapsed; the key is mapped to absent (undefined), never to a
\* result with passed = false, and the call has no error outcome.
C8_AbsentIsNotFailure ==
  /\ [](\A p \in Workers : \A i \in 1..Len(pollers[p]) :
          NeverRecorded(p, i) =>
            /\ pollers[p][i].res = Absent
            /\ pollers[p][i].elapsed >= WaitTimeout
            /\ <<wkeys[p][i], Absent>> \in Range(wresults[p]))
  /\ \A p \in Workers : (pc[p] = "waiting") ~> (pc[p] = "idle")

C8_Witness ==
  \E p \in Workers :
    /\ AllDone(p)
    /\ callElapsed[p] >= WaitTimeout
    /\ \E i \in 1..Len(pollers[p]) :
         NeverRecorded(p, i) /\ <<wkeys[p][i], Absent>> \in Range(wresults[p])

\* C9: a key is mapped to absent only if no result for it was in the store
\* at any time before the timeout elapsed; a result recorded before the
\* timeout is returned.
C9_FindsWhatIsThere ==
  \A p \in Workers : \A i \in 1..Len(pollers[p]) :
    pollers[p][i].st = "done" /\ pollers[p][i].res = Absent => seenAt[p][i] = Never

\* C10: the keys are polled concurrently: the whole call takes no longer than
\* the timeout plus one poll interval, however many keys there are, and the
\* Map returned has exactly one entry per distinct key supplied.
C10_ConcurrentWaiting ==
  \A p \in Workers :
    /\ callElapsed[p] <= WaitBound
    /\ AllDone(p) =>
         /\ MapKeys(wresults[p]) = Range(wkeys[p])
         /\ Len(wresults[p]) = Cardinality(Range(wkeys[p]))

C10_Witness ==
  \E p \in Workers :
    /\ AllDone(p)
    /\ Cardinality(Range(wkeys[p])) > 1
    /\ callElapsed[p] >= WaitTimeout
    /\ \A i \in 1..Len(pollers[p]) : pollers[p][i].res = Absent

====
